---- MODULE Spec2Model ----
(***************************************************************************)
(* FlashPay: the client-resident payment ledger (UnifiedStateStore), its   *)
(* guard layer (RateLimiter, InputValidator, SecurityGuard), its logs      *)
(* (ErrorTracker, AuditLogger), the domain switches and the operation      *)
(* orchestrator (createPayment, executePayment, getPaymentFromServer), as  *)
(* seen from one browser tab.  Other tabs, the backend and the payment     *)
(* provider are the environment.                                           *)
(*                                                                         *)
(* Specifications:                                                         *)
(*   Spec        the ledger store under direct store calls, two merchants  *)
(*   SpecIso     access by id to one payment under either merchant         *)
(*   SpecPay     the life of one payment: create, execute, restore, sync   *)
(*   SpecRate    one key of the rate limiter as time passes                *)
(*   SpecLWW     two cross-tab snapshots delivered in either order         *)
(*   SpecCreate  one createPayment call over the amounts, notes and guards *)
(*   SpecErr     createPayment and executePayment failing in every way     *)
(*   SpecLog     the error trail and the audit log at their capacity       *)
(*   SpecRoute   route checks under every setting of the switches          *)
(*   SpecStats   payment statistics over records of two merchants          *)
(*   SpecLedger  what removes records: clearing, reset, cross-tab snapshot *)
(*   SpecMerchant the merchant id and lastUpdated over writes and reloads  *)
(*   SpecSync    cross-tab snapshots older and newer than the state        *)
(*   SpecDebounce mutations half a debounce window apart and their write   *)
(*   SpecTiers   the global snapshot and the merchant lists in storage     *)
(*   SpecBoot    a page load from what an earlier write stored             *)
(*   SpecFail    reads and writes of localStorage that fail                *)
(*   SpecSub     listeners around store calls                              *)
(*   SpecAuth    provider authentication and its 30 s timeout              *)
(*   SpecEnd     a provider flow that fails or is cancelled                *)
(*   SpecLate    provider callbacks that arrive after the record is gone   *)
(*   SpecShared  two tabs of one merchant writing the same stored list     *)
(*   SpecEcho    two tabs that only receive snapshots and poll the wallet  *)
(*   SpecReset   resetState after in-place writes of the state             *)
(***************************************************************************)
EXTENDS Integers, Sequences, FiniteSets, TLC

\* ------------------------------------------------------------------------
\* Bounds of the exploration
\* ------------------------------------------------------------------------
MaxPayments == 2        \* records held by the in-memory ledger
MaxFlows == 2           \* provider flows in flight per payment id
MaxCreates == 1         \* createPayment calls
MaxCalls == 1           \* executePayment calls per payment id in SpecIso
MaxExecutes == 2        \* executePayment calls per payment id in SpecPay
MaxRateChecks == 6      \* allowed rate-limiter checks in SpecRate
MaxRateTicks == 3       \* clock advances in SpecRate
MaxSnapshotTime == 3    \* latest lastUpdated of another tab's snapshot in SpecLWW
MaxLogAppends == 3      \* appends to the two logs once both are full in SpecLog
MaxTrackingIds == 3     \* tracking ids generated before the last call of SpecErr
MaxTabTicks == 2        \* clock advances in the specifications of one tab and its storage
MaxNotified == 3        \* calls of one listener in SpecSync and SpecSub
MaxDebounceTicks == 4   \* clock advances, of half a debounce window each, in SpecDebounce
MaxAuthTicks == 4       \* clock advances, of half an authentication timeout each, in SpecAuth
MaxEchoTicks == 4       \* clock advances, of a debounce window each, in SpecEcho

\* ------------------------------------------------------------------------
\* Values
\* ------------------------------------------------------------------------
PaymentIds == {"p1", "p2"}
MerchantIds == {"m1", "m2"}
Txids == {"tx1", "tx2"}
Undefined == "undefined"
\* PaymentStatus of types.ts, and the lower-case statuses the backend stores
PaymentStatus == {"PENDING", "PAID", "FAILED", "CANCELLED"}
ServerStatus == {"pending", "paid", "failed", "cancelled"}

\* An optional value is the empty sequence (undefined) or a one-element sequence.
None == <<>>
Some(x) == <<x>>

\* A JS number as the validators see it: kind, whole part and the fraction in
\* units of 10^-8 (0 .. 99999999).
Num(w, f) == [kind |-> "number", whole |-> w, frac8 |-> f]
Neg(w, f) == [kind |-> "negative", whole |-> w, frac8 |-> f]
NaN == [kind |-> "NaN", whole |-> 0, frac8 |-> 0]
Infinity == [kind |-> "Infinity", whole |-> 0, frac8 |-> 0]
\* A note is modelled by its length.
Note(n) == [length |-> n]

\* ------------------------------------------------------------------------
\* Program constants
\* ------------------------------------------------------------------------
MAX_AMOUNT == 1000000
MAX_DECIMALS == 7
MAX_NOTE_LENGTH == 500
MAX_ID_LENGTH == 100
DEBOUNCE_MS == 100
\* ErrorTracker.maxErrors and AuditLogger.maxEntries
maxErrors == 100
maxEntries == 200
RATE_LIMITS ==
    [CREATE_PAYMENT |-> [maxAttempts |-> 10, windowMs |-> 60000],
     EXECUTE_PAYMENT |-> [maxAttempts |-> 5, windowMs |-> 60000]]
OPERATIONAL_FLAGS ==
    [TESTNET_ONLY |-> TRUE, REQUIRE_WALLET |-> TRUE, REQUIRE_DOMAIN_ENABLED |-> TRUE,
     REQUIRE_MASTER_ENABLED |-> FALSE, ENABLE_RATE_LIMITING |-> TRUE,
     ENABLE_AUDIT_LOGGING |-> TRUE]
\* OPERATIONAL_DOMAINS: the only domain is "flashpay", enabled by default
OPERATIONAL_DOMAINS == [flashpay |-> TRUE]

\* ------------------------------------------------------------------------
\* Guard layer: InputValidator
\* ------------------------------------------------------------------------
RECURSIVE TrailingZeros(_)
TrailingZeros(f) == IF f = 0 \/ f % 10 # 0 THEN 0 ELSE 1 + TrailingZeros(f \div 10)

\* (amount.toString().split(".")[1] || "").length.  A double below 10^-6 prints
\* in exponent form ("1e-7", "1.5e-7"): what follows the "." is then the rest of
\* the mantissa and the exponent.  Otherwise it prints its shortest decimal form.
DecimalPlaces(a) ==
    IF a.whole = 0 /\ a.frac8 > 0 /\ a.frac8 < 100
    THEN IF a.frac8 < 10 \/ a.frac8 % 10 = 0 THEN 0 ELSE 4
    ELSE IF a.frac8 = 0 THEN 0 ELSE 8 - TrailingZeros(a.frac8)

Valid == [valid |-> TRUE, error |-> Undefined]
Invalid(msg) == [valid |-> FALSE, error |-> msg]

\* Variant of validateAmount that rejects the maximum itself
validateAmount_BelowMax(amount) ==
    IF amount.kind = "NaN" THEN Invalid("Amount must be a valid number")
    ELSE IF amount.kind = "negative" \/ (amount.kind = "number" /\ amount.whole = 0 /\ amount.frac8 = 0)
    THEN Invalid("Amount must be greater than zero")
    ELSE IF amount.kind = "Infinity" \/ amount.whole >= MAX_AMOUNT
    THEN Invalid("Amount exceeds maximum limit (1,000,000 Pi)")
    ELSE IF DecimalPlaces(amount) > MAX_DECIMALS
    THEN Invalid("Amount cannot have more than 7 decimal places")
    ELSE Valid

validateAmount(amount) ==
    IF amount.kind = "NaN" THEN Invalid("Amount must be a valid number")
    ELSE IF amount.kind = "negative" \/ (amount.kind = "number" /\ amount.whole = 0 /\ amount.frac8 = 0)
    THEN Invalid("Amount must be greater than zero")
    ELSE IF amount.kind = "Infinity"
            \/ amount.whole > MAX_AMOUNT
            \/ (amount.whole = MAX_AMOUNT /\ amount.frac8 > 0)
    THEN Invalid("Amount exceeds maximum limit (1,000,000 Pi)")
    ELSE IF DecimalPlaces(amount) > MAX_DECIMALS
    THEN Invalid("Amount cannot have more than 7 decimal places")
    ELSE Valid

validateNote(note) ==
    IF note.length > MAX_NOTE_LENGTH
    THEN Invalid("Note cannot exceed 500 characters")
    ELSE Valid

\* A payment id is modelled by the id itself; IdLength gives its length, the
\* empty id "" and the over-long id "long" being the two malformed inputs.
IdLength(id) == IF id = "" THEN 0 ELSE IF id = "long" THEN MAX_ID_LENGTH + 1 ELSE 2

validatePaymentId(id) ==
    IF IdLength(id) = 0 THEN Invalid("Payment ID is required")
    ELSE IF IdLength(id) > MAX_ID_LENGTH THEN Invalid("Payment ID is invalid")
    ELSE Valid

\* ------------------------------------------------------------------------
\* Guard layer: RateLimiter
\* ------------------------------------------------------------------------
RECURSIVE SelectSeqSince(_, _)
\* attempts.filter((timestamp) => timestamp > windowStart)
SelectSeqSince(attempts, windowStart) ==
    IF attempts = <<>> THEN <<>>
    ELSE IF Head(attempts) > windowStart
         THEN <<Head(attempts)>> \o SelectSeqSince(Tail(attempts), windowStart)
         ELSE SelectSeqSince(Tail(attempts), windowStart)

\* Variant of RateLimiter.check that allows a check while maxAttempts are held
RateLimiterCheck_OneMore(attempts, config, t) ==
    LET recentAttempts == SelectSeqSince(attempts, t - config.windowMs)
        allowed == Len(recentAttempts) <= config.maxAttempts
        held == IF allowed THEN Append(recentAttempts, t) ELSE recentAttempts
        left == config.maxAttempts - Len(held)
    IN  [allowed |-> allowed,
         remainingAttempts |-> IF left > 0 THEN left ELSE 0,
         attempts |-> held]

\* Variant of RateLimiter.check that records the timestamp of a denied check too
RateLimiterCheck_CountsDenied(attempts, config, t) ==
    LET recentAttempts == SelectSeqSince(attempts, t - config.windowMs)
        allowed == Len(recentAttempts) < config.maxAttempts
        held == Append(recentAttempts, t)
        left == config.maxAttempts - Len(held)
    IN  [allowed |-> allowed,
         remainingAttempts |-> IF left > 0 THEN left ELSE 0,
         attempts |-> held]

\* RateLimiter.check(key, config) at time t, on the timestamps held for key:
\* the verdict, remainingAttempts and the timestamps held afterwards.
RateLimiterCheck(attempts, config, t) ==
    IF ~OPERATIONAL_FLAGS.ENABLE_RATE_LIMITING
    THEN [allowed |-> TRUE, remainingAttempts |-> config.maxAttempts, attempts |-> attempts]
    ELSE
    LET recentAttempts == SelectSeqSince(attempts, t - config.windowMs)
        allowed == Len(recentAttempts) < config.maxAttempts
        held == IF allowed THEN Append(recentAttempts, t) ELSE recentAttempts
        left == config.maxAttempts - Len(held)
    IN  [allowed |-> allowed,
         remainingAttempts |-> IF left > 0 THEN left ELSE 0,
         attempts |-> held]

\* ------------------------------------------------------------------------
\* Ledger store: UnifiedState and the pure part of UnifiedStateStore
\* ------------------------------------------------------------------------
\* DEFAULT_STATE, with the merchant id that generateMerchantId() drew for this
\* tab and the Pi SDK availability found at load.  The ui and _owner sections
\* and the activity dates hold nothing the ledger or the guards read.
DEFAULT_STATE(merchantId, piAvailable, t) ==
    [payments |-> <<>>,
     domainState |-> [masterEnabled |-> FALSE, domains |-> OPERATIONAL_DOMAINS],
     merchant |-> [isSetupComplete |-> FALSE, merchantId |-> merchantId],
     session |-> [isAuthenticated |-> FALSE, currentMerchantId |-> ""],
     wallet |-> [isConnected |-> FALSE, isPiSDKAvailable |-> piAvailable,
                 isInitialized |-> FALSE],
     lastUpdated |-> t]

\* this.state.session.currentMerchantId || this.state.merchant.merchantId
CurrentMerchantId(st) ==
    IF st.session.currentMerchantId # "" THEN st.session.currentMerchantId
    ELSE st.merchant.merchantId

\* Array.prototype.find by id: the index of the first record with that id, or 0
FindIndex(payments, id) ==
    IF \E i \in 1..Len(payments) : payments[i].id = id
    THEN CHOOSE i \in 1..Len(payments) :
            /\ payments[i].id = id
            /\ \A j \in 1..(i - 1) : payments[j].id # id
    ELSE 0

NewPayment(id, merchantId, amount, note, createdAt) ==
    [id |-> id, merchantId |-> merchantId, amount |-> amount, note |-> note,
     status |-> "PENDING", createdAt |-> createdAt, paidAt |-> None, txid |-> Undefined]

\* createPaymentWithId: the record it builds and the ledger after unshift.  The
\* processingLocks entry is added and deleted inside this one synchronous call,
\* so the lock test at its head never finds it.
createPaymentWithId(st, id, amount, note, createdAt) ==
    LET payment == NewPayment(id, CurrentMerchantId(st), amount, note, createdAt)
    IN  [state |-> [st EXCEPT !.payments = <<payment>> \o @], payment |-> payment]

\* addPayment: skipped when a record with the id is present, else unshift
addPayment(st, payment) ==
    IF FindIndex(st.payments, payment.id) # 0
    THEN [state |-> st, changed |-> FALSE]
    ELSE [state |-> [st EXCEPT !.payments = <<payment>> \o @], changed |-> TRUE]

\* Variant of the storage listener that applies every snapshot it receives
OnStorageEvent_Always(st, newState) ==
    newState

\* Variant of getPayment without the merchant test
getPayment_AnyMerchant(st, id) ==
    LET i == FindIndex(st.payments, id)
    IN  IF i = 0 THEN None ELSE Some(st.payments[i])

\* getPayment: the first record with the id, unless it is another merchant's
getPayment(st, id) ==
    LET i == FindIndex(st.payments, id)
    IN  IF i = 0 THEN None
        ELSE IF st.payments[i].merchantId # CurrentMerchantId(st) THEN None
        ELSE Some(st.payments[i])

RECURSIVE FilterMerchant(_, _)
FilterMerchant(payments, merchantId) ==
    IF payments = <<>> THEN <<>>
    ELSE IF Head(payments).merchantId = merchantId
         THEN <<Head(payments)>> \o FilterMerchant(Tail(payments), merchantId)
         ELSE FilterMerchant(Tail(payments), merchantId)

RECURSIVE InsertByCreatedAt(_, _)
\* stable insertion for sort((a, b) => b.createdAt - a.createdAt)
InsertByCreatedAt(sorted, p) ==
    IF sorted = <<>> THEN <<p>>
    ELSE IF Head(sorted).createdAt >= p.createdAt
         THEN <<Head(sorted)>> \o InsertByCreatedAt(Tail(sorted), p)
         ELSE <<p>> \o sorted

RECURSIVE SortByCreatedAtDesc(_)
SortByCreatedAtDesc(payments) ==
    IF payments = <<>> THEN <<>>
    ELSE InsertByCreatedAt(SortByCreatedAtDesc(SubSeq(payments, 1, Len(payments) - 1)),
                           payments[Len(payments)])

\* Variant of getAllPayments without the merchant filter
getAllPayments_Unfiltered(st) ==
    SortByCreatedAtDesc(st.payments)

\* getAllPayments: the active merchant's records, newest first
getAllPayments(st) ==
    SortByCreatedAtDesc(FilterMerchant(st.payments, CurrentMerchantId(st)))

\* Variant of updatePaymentStatus without the already-PAID test
updatePaymentStatus_NoPaidGuard(st, id, status, txid, t) ==
    LET found == getPayment(st, id)
        i == FindIndex(st.payments, id)
    IN  IF found = None THEN [state |-> st, result |-> FALSE]
        ELSE [state |->
                 [st EXCEPT !.payments[i] =
                     IF status = "PAID"
                     THEN [@ EXCEPT !.status = status, !.paidAt = Some(t), !.txid = txid]
                     ELSE [@ EXCEPT !.status = status]],
              result |-> TRUE]

\* Variant of updatePaymentStatus whose already-PAID test only stops a second PAID
updatePaymentStatus_PaidTwiceOnly(st, id, status, txid, t) ==
    LET found == getPayment(st, id)
        i == FindIndex(st.payments, id)
    IN  IF found = None THEN [state |-> st, result |-> FALSE]
        ELSE IF found[1].status = "PAID" /\ status = "PAID"
        THEN [state |-> st, result |-> FALSE]
        ELSE [state |->
                 [st EXCEPT !.payments[i] =
                     IF status = "PAID"
                     THEN [@ EXCEPT !.status = status, !.paidAt = Some(t), !.txid = txid]
                     ELSE [@ EXCEPT !.status = status]],
              result |-> TRUE]

\* Variant of updatePaymentStatus that looks the record up in the whole ledger
updatePaymentStatus_AnyMerchant(st, id, status, txid, t) ==
    LET i == FindIndex(st.payments, id)
    IN  IF i = 0 THEN [state |-> st, result |-> FALSE]
        ELSE IF st.payments[i].status = "PAID" THEN [state |-> st, result |-> FALSE]
        ELSE [state |->
                 [st EXCEPT !.payments[i] =
                     IF status = "PAID"
                     THEN [@ EXCEPT !.status = status, !.paidAt = Some(t), !.txid = txid]
                     ELSE [@ EXCEPT !.status = status]],
              result |-> TRUE]

\* Variant of updatePaymentStatus that writes paidAt and txid for every status
updatePaymentStatus_AlwaysStamps(st, id, status, txid, t) ==
    LET found == getPayment(st, id)
        i == FindIndex(st.payments, id)
    IN  IF found = None THEN [state |-> st, result |-> FALSE]
        ELSE IF found[1].status = "PAID" THEN [state |-> st, result |-> FALSE]
        ELSE [state |->
                 [st EXCEPT !.payments[i] =
                     [@ EXCEPT !.status = status, !.paidAt = Some(t), !.txid = txid]],
              result |-> TRUE]

\* updatePaymentStatus at time t: the ledger afterwards and the value returned
updatePaymentStatus(st, id, status, txid, t) ==
    LET found == getPayment(st, id)
        i == FindIndex(st.payments, id)
    IN  IF found = None THEN [state |-> st, result |-> FALSE]
        ELSE IF found[1].status = "PAID" THEN [state |-> st, result |-> FALSE]
        ELSE [state |->
                 [st EXCEPT !.payments[i] =
                     IF status = "PAID"
                     THEN [@ EXCEPT !.status = status, !.paidAt = Some(t), !.txid = txid]
                     ELSE [@ EXCEPT !.status = status]],
              result |-> TRUE]

\* clearAllPayments: drop the active merchant's records
RECURSIVE FilterNotMerchant(_, _)
FilterNotMerchant(payments, merchantId) ==
    IF payments = <<>> THEN <<>>
    ELSE IF Head(payments).merchantId # merchantId
         THEN <<Head(payments)>> \o FilterNotMerchant(Tail(payments), merchantId)
         ELSE FilterNotMerchant(Tail(payments), merchantId)

clearAllPayments(st) ==
    [st EXCEPT !.payments = FilterNotMerchant(@, CurrentMerchantId(st))]

RECURSIVE FilterStatus(_, _)
\* payments.filter((p) => p.status === status)
FilterStatus(payments, status) ==
    IF payments = <<>> THEN <<>>
    ELSE IF Head(payments).status = status
         THEN <<Head(payments)>> \o FilterStatus(Tail(payments), status)
         ELSE FilterStatus(Tail(payments), status)

\* sum + p.amount on JavaScript numbers: NaN absorbs, then Infinity; finite
\* values add in units of 10^-8 with the carry between whole and frac8.  (The
\* addition is IEEE double addition; it is exact on the dyadic amounts the
\* specifications feed it.)
AddAmount(sum, amount) ==
    IF sum.kind = "NaN" \/ amount.kind = "NaN" THEN NaN
    ELSE IF sum.kind = "Infinity" \/ amount.kind = "Infinity" THEN Infinity
    ELSE LET sw == IF sum.kind = "negative" THEN 0 - sum.whole ELSE sum.whole
             sf == IF sum.kind = "negative" THEN 0 - sum.frac8 ELSE sum.frac8
             aw == IF amount.kind = "negative" THEN 0 - amount.whole ELSE amount.whole
             af == IF amount.kind = "negative" THEN 0 - amount.frac8 ELSE amount.frac8
             w0 == sw + aw
             f0 == sf + af
             w1 == IF f0 >= 100000000 THEN w0 + 1
                   ELSE IF f0 <= -100000000 THEN w0 - 1 ELSE w0
             f1 == IF f0 >= 100000000 THEN f0 - 100000000
                   ELSE IF f0 <= -100000000 THEN f0 + 100000000 ELSE f0
             w2 == IF w1 > 0 /\ f1 < 0 THEN w1 - 1
                   ELSE IF w1 < 0 /\ f1 > 0 THEN w1 + 1 ELSE w1
             f2 == IF w1 > 0 /\ f1 < 0 THEN f1 + 100000000
                   ELSE IF w1 < 0 /\ f1 > 0 THEN f1 - 100000000 ELSE f1
         IN  IF w2 < 0 \/ f2 < 0 THEN Neg(0 - w2, 0 - f2) ELSE Num(w2, f2)

RECURSIVE SumAmounts(_, _)
\* payments.reduce((sum, p) => sum + p.amount, sum)
SumAmounts(sum, payments) ==
    IF payments = <<>> THEN sum
    ELSE SumAmounts(AddAmount(sum, Head(payments).amount), Tail(payments))

\* A quotient of two integers, kept as the pair: (paid.length / all.length) * 100
\* is num / den with num = paid.length * 100 and den = all.length.
Ratio(num, den) == [num |-> num, den |-> den]

\* getPaymentStats with the total taken over every record of the merchant
getPaymentStats_SumsAll(st) ==
    LET all == FilterMerchant(st.payments, CurrentMerchantId(st))
        paid == FilterStatus(all, "PAID")
    IN  [totalPayments |-> Len(all),
         paidPayments |-> Len(paid),
         pendingPayments |-> Len(FilterStatus(all, "PENDING")),
         failedPayments |-> Len(FilterStatus(all, "FAILED")),
         cancelledPayments |-> Len(FilterStatus(all, "CANCELLED")),
         totalAmount |-> SumAmounts(Num(0, 0), all),
         conversionRate |-> IF Len(all) > 0 THEN Ratio(Len(paid) * 100, Len(all))
                            ELSE Ratio(0, 1)]

\* getPaymentStats(): counts and totals over the active merchant's records
getPaymentStats(st) ==
    LET all == FilterMerchant(st.payments, CurrentMerchantId(st))
        paid == FilterStatus(all, "PAID")
    IN  [totalPayments |-> Len(all),
         paidPayments |-> Len(paid),
         pendingPayments |-> Len(FilterStatus(all, "PENDING")),
         failedPayments |-> Len(FilterStatus(all, "FAILED")),
         cancelledPayments |-> Len(FilterStatus(all, "CANCELLED")),
         totalAmount |-> SumAmounts(Num(0, 0), paid),
         conversionRate |-> IF Len(all) > 0 THEN Ratio(Len(paid) * 100, Len(all))
                            ELSE Ratio(0, 1)]

\* Variant of the storage listener that also applies a snapshot as old as the state
OnStorageEvent_NotOlder(st, newState) ==
    IF newState.lastUpdated >= st.lastUpdated THEN newState ELSE st

\* The storage listener of setupCrossTabSync on a snapshot of the global key:
\* the snapshot replaces the whole state when its lastUpdated is newer.
OnStorageEvent(st, newState) ==
    IF newState.lastUpdated > st.lastUpdated THEN newState ELSE st

\* ------------------------------------------------------------------------
\* Guard layer: SecurityGuard
\* ------------------------------------------------------------------------
\* setDomainEnabled that does not look at the master switch
setDomainEnabled_Ungated(st, domainId, enabled) ==
    [state |-> [st EXCEPT !.domainState.domains[domainId] = enabled], result |-> TRUE]

\* setDomainEnabled(domainId, enabled): refused while the master switch is off
setDomainEnabled(st, domainId, enabled) ==
    IF ~st.domainState.masterEnabled
    THEN [state |-> st, result |-> FALSE]
    ELSE [state |-> [st EXCEPT !.domainState.domains[domainId] = enabled], result |-> TRUE]

\* A route is the sequence of its characters
StartsWith(route, prefix) ==
    Len(route) >= Len(prefix) /\ SubSeq(route, 1, Len(prefix)) = prefix

\* The routes canAccessRoute names
CONTROL_PANEL == <<"/", "c", "o", "n", "t", "r", "o", "l", "-", "p", "a", "n", "e", "l">>
PAY == <<"/", "p", "a", "y">>
coreRoutes ==
    {<<"/">>, <<"/", "c", "r", "e", "a", "t", "e">>, PAY,
     <<"/", "p", "a", "y", "m", "e", "n", "t", "s">>,
     <<"/", "p", "r", "o", "f", "i", "l", "e">>}

\* canAccessRoute that matches core routes exactly
canAccessRoute_ExactOnly(route) ==
    route = CONTROL_PANEL \/ route \in coreRoutes

\* DomainStore.canAccessRoute(route): the control panel and the core routes,
\* "/pay" standing for every route that starts with it; no toggle is read
canAccessRoute(route) ==
    \/ route = CONTROL_PANEL
    \/ \E r \in coreRoutes : route = r \/ (r = PAY /\ StartsWith(route, PAY))

Passed == [passed |-> TRUE, reason |-> Undefined]
Failed(reason) == [passed |-> FALSE, reason |-> reason]

checkWallet(st) ==
    IF ~OPERATIONAL_FLAGS.REQUIRE_WALLET THEN Passed
    ELSE IF ~st.wallet.isPiSDKAvailable
    THEN Failed("Pi Wallet SDK is not available. Please open this app in Pi Browser.")
    ELSE IF ~st.wallet.isConnected
    THEN Failed("Wallet is not connected. Please connect your Pi Wallet to continue.")
    ELSE Passed

\* this.state.domainState.domains[domainId] ?? false
isDomainEnabled(st, domainId) ==
    IF domainId \in DOMAIN st.domainState.domains
    THEN st.domainState.domains[domainId] ELSE FALSE

checkDomainAccess(st, domainId) ==
    IF ~OPERATIONAL_FLAGS.REQUIRE_DOMAIN_ENABLED THEN Passed
    ELSE IF ~isDomainEnabled(st, domainId)
    THEN Failed("This service (flashpay) is currently disabled. Please contact support.")
    ELSE Passed

checkMasterToggle(st) ==
    IF ~OPERATIONAL_FLAGS.REQUIRE_MASTER_ENABLED THEN Passed
    ELSE IF ~st.domainState.masterEnabled
    THEN Failed("System maintenance in progress. Please try again later.")
    ELSE Passed

\* preOperationCheck(operation, domainId): the master toggle, then the domain;
\* the verdict and the checks it evaluated, in order.
preOperationCheck(st, domainId) ==
    LET masterCheck == checkMasterToggle(st)
        domainCheck == checkDomainAccess(st, domainId)
    IN  IF ~masterCheck.passed
        THEN [check |-> masterCheck, evaluated |-> <<"master">>]
        ELSE IF ~domainCheck.passed
        THEN [check |-> domainCheck, evaluated |-> <<"master", "domain">>]
        ELSE [check |-> Passed, evaluated |-> <<"master", "domain">>]

\* The guard chain at the head of createPayment, on the verdict rl of the rate
\* limiter: the first failing check's message (Undefined when all pass) and the
\* checks evaluated, in order.
CreatePaymentGuards(st, rl, amount, note) ==
    LET amountValidation == validateAmount(amount)
        noteValidation == validateNote(note)
        securityCheck == preOperationCheck(st, "flashpay")
    IN  IF ~rl.allowed
        THEN [passed |-> FALSE, error |-> "Too many requests. Please wait a moment.",
              evaluated |-> <<"rateLimit">>]
        ELSE IF ~amountValidation.valid
        THEN [passed |-> FALSE, error |-> amountValidation.error,
              evaluated |-> <<"rateLimit", "amount">>]
        ELSE IF ~noteValidation.valid
        THEN [passed |-> FALSE, error |-> noteValidation.error,
              evaluated |-> <<"rateLimit", "amount", "note">>]
        ELSE [passed |-> securityCheck.check.passed, error |-> securityCheck.check.reason,
              evaluated |-> <<"rateLimit", "amount", "note">> \o securityCheck.evaluated]

\* ------------------------------------------------------------------------
\* ErrorTracker and AuditLogger
\* ------------------------------------------------------------------------
\* slice that keeps the first n elements
SliceLast_First(seq, n) == IF Len(seq) > n THEN SubSeq(seq, 1, n) ELSE seq

\* array.slice(-n): the last n elements
SliceLast(seq, n) == IF Len(seq) > n THEN SubSeq(seq, Len(seq) - n + 1, Len(seq)) ELSE seq

\* generateTrackingId(): "TRK-<Date.now()>-<random>".  The random part is
\* modelled by the number of ids generated so far, so each id is new.
generateTrackingId(generated, t) == [time |-> t, random |-> generated + 1]

\* The entry errorTracker.logError(operation, error, details) pushes; details
\* carry the payment id where the caller passes one
OperationError(trackingId, t, operation, error, details) ==
    [trackingId |-> trackingId, timestamp |-> t, operation |-> operation,
     error |-> error, details |-> details]

\* logError that records nothing
logError_Dropped(log, entry) == log

\* errorTracker.logError: push, then keep only the latest maxErrors
logError(log, entry) ==
    LET pushed == Append(log, entry)
    IN  IF Len(pushed) > maxErrors THEN SliceLast(pushed, maxErrors) ELSE pushed

\* The entry auditLogger.log(operation, details, outcome) pushes
AuditEntry(trackingId, t, operation, details, outcome) ==
    [trackingId |-> trackingId, timestamp |-> t, operation |-> operation,
     details |-> details, outcome |-> outcome]

\* auditLogger.log: nothing when audit logging is switched off; else push,
\* then keep only the latest maxEntries
auditLog(log, entry) ==
    LET pushed == Append(log, entry)
    IN  IF ~OPERATIONAL_FLAGS.ENABLE_AUDIT_LOGGING THEN log
        ELSE IF Len(pushed) > maxEntries THEN SliceLast(pushed, maxEntries) ELSE pushed

\* ------------------------------------------------------------------------
\* State of one tab
\* ------------------------------------------------------------------------
VARIABLES
    state,          \* UnifiedStateStore.state
    saveTimeout,    \* the debounce timer of saveToStorage: None, or Some(due time)
    rateAttempts,   \* RateLimiter.attempts: timestamps held per key
    cache,          \* localStorage "flashpay_payment_<id>": the secondary cache
    creates,        \* createPayment calls awaiting the backend's reply
    flows,          \* provider flows started by executePayment, per payment id
    now,            \* Date.now()
    ticks,          \* clock advances so far
    storage,        \* localStorage: the global snapshot and the per-merchant lists
    ret,            \* the last call: its arguments and what it reported
    everPaid,       \* history: ids whose record this tab has stamped PAID
    allowedAt,      \* history: times of the checks the rate limiter allowed, per key
    inbox,          \* storage notifications of other tabs' writes, on their way to this tab
    errors,         \* ErrorTracker.errors: the error trail
    audits,         \* AuditLogger.entries: the audit log
    trackingIds,    \* tracking ids generated so far
    mirrors,        \* provider callbacks of executePayment awaiting the backend PATCH
    defaults,       \* the module-level DEFAULT_STATE object, as in-place writes have left it
    shared,         \* sections of state that are the very objects of DEFAULT_STATE
    alias,          \* per ledger position: the position of the same record object in
                    \* DEFAULT_STATE.payments, or 0
    listeners,      \* UnifiedStateStore.listeners: the subscribers of each topic
    calls,          \* history: how many times each listener has been called
    auth            \* the authenticateMerchant / authenticateCustomer call in flight

vars == <<state, saveTimeout, rateAttempts, cache, creates, flows, now, ticks, storage,
          ret, everPaid, allowedAt, inbox, errors, audits, trackingIds, mirrors,
          defaults, shared, alias, listeners, calls, auth>>

\* Payment ids handed to executePayment: the two well-formed ids, the empty id
\* and an over-long id.
ExecIds == PaymentIds \cup {"", "long"}

\* What a call reported: the operation, the id it was about, its outcome, the
\* error message, the guards it evaluated, the record it returned and the
\* tracking id it handed over (none unless Tracked).
Ret(op, id, outcome, error, checks, payment) ==
    [op |-> op, id |-> id, outcome |-> outcome, error |-> error, checks |-> checks,
     payment |-> payment, trackingId |-> None]

Tracked(r, trackingId) == [r EXCEPT !.trackingId = Some(trackingId)]

\* Variant of saveToStorage that leaves a pending timer as it is
Armed_KeepsTimer == IF saveTimeout # None THEN saveTimeout ELSE Some(now + DEBOUNCE_MS)

\* saveToStorage(): (re)arm the debounce timer
Armed == Some(now + DEBOUNCE_MS)

\* The sections of the state that subscribers can be told about
Sections == {"payments", "domainState", "merchant", "session", "wallet"}

\* `state = { ...DEFAULT_STATE }` copies references, so each section of the
\* state starts as the object DEFAULT_STATE holds.  These are the sections the
\* store writes in place (unshift and record fields, the domain switches,
\* session.currentMerchantId); the others are only ever replaced by a new
\* object, which leaves the object of DEFAULT_STATE as it was.
WrittenInPlace == {"payments", "domainState", "session"}

\* The topics of subscribe: a section or "all"
Topics == Sections \cup {"all"}

\* The listener functions handed to subscribe
ListenerIds == {"l1", "l2"}

\* The objects of a store built on empty storage and written only in place
\* since: every section is still the object of DEFAULT_STATE.  Nobody has
\* subscribed.
Opened ==
    /\ defaults = state
    /\ shared = WrittenInPlace
    /\ alias = [i \in 1..Len(state.payments) |-> i]
    /\ listeners = [t \in Topics |-> {}]
    /\ calls = [l \in ListenerIds |-> 0]

\* The objects of a store built from a saved snapshot: loadFromStorage put the
\* parsed objects in place of those of DEFAULT_STATE, which was built at time
\* t around a merchant id generated for this page load.  Nobody has subscribed.
Loaded(generatedId, t) ==
    /\ defaults = DEFAULT_STATE(generatedId, state.wallet.isPiSDKAvailable, t)
    /\ shared = {}
    /\ alias = [i \in 1..Len(state.payments) |-> 0]
    /\ listeners = [t2 \in Topics |-> {}]
    /\ calls = [l \in ListenerIds |-> 0]

\* this.state.payments.unshift(payment): the array is written in place, so the
\* record also enters DEFAULT_STATE.payments while the array is shared
Unshifted ==
    IF Len(state'.payments) = Len(state.payments)
    THEN UNCHANGED <<defaults, shared, alias>>
    ELSE /\ defaults' = IF "payments" \in shared
                        THEN [defaults EXCEPT !.payments = state'.payments]
                        ELSE defaults
         /\ alias' = IF "payments" \in shared
                     THEN [i \in 1..Len(state'.payments) |-> i]
                     ELSE <<0>> \o alias
         /\ UNCHANGED shared

\* payment.status = ... (paidAt, txid): the record object is written in place,
\* wherever else it is held
RecordWritten(id) ==
    LET i == FindIndex(state.payments, id)
    IN  /\ defaults' = IF i # 0 /\ alias[i] # 0
                       THEN [defaults EXCEPT !.payments[alias[i]] = state'.payments[i]]
                       ELSE defaults
        /\ UNCHANGED <<shared, alias>>

RECURSIVE FilterNotMerchantAlias(_, _, _)
\* the alias entries of the records FilterNotMerchant keeps
FilterNotMerchantAlias(payments, al, merchantId) ==
    IF payments = <<>> THEN <<>>
    ELSE IF Head(payments).merchantId # merchantId
         THEN <<Head(al)>> \o FilterNotMerchantAlias(Tail(payments), Tail(al), merchantId)
         ELSE FilterNotMerchantAlias(Tail(payments), Tail(al), merchantId)

\* this.state.payments = this.state.payments.filter(...): a new array of the
\* same record objects; DEFAULT_STATE.payments keeps the old array
Filtered ==
    /\ shared' = shared \ {"payments"}
    /\ alias' = FilterNotMerchantAlias(state.payments, alias, CurrentMerchantId(state))
    /\ UNCHANGED defaults

\* this.state.<section> = { ...this.state.<section>, ...updates }: a new object
\* takes the place of the one the state held
Reassigned(section) ==
    /\ shared' = shared \ {section}
    /\ UNCHANGED <<defaults, alias>>

\* this.state.<section>.<field> = value: the section object is written in place
InPlace(section) ==
    /\ defaults' = IF section \in shared
                   THEN [defaults EXCEPT ![section] = state'[section]]
                   ELSE defaults
    /\ UNCHANGED <<shared, alias>>

\* this.state = newState in the storage listener, when it applies the
\* snapshot: every object is new
Replaced(newState) ==
    IF state' # state
    THEN /\ shared' = {}
         /\ alias' = [i \in 1..Len(newState.payments) |-> 0]
         /\ UNCHANGED defaults
    ELSE UNCHANGED <<defaults, shared, alias>>

\* notify(section): every listener of the section, then every listener of "all"
notify(section) ==
    [l \in ListenerIds |->
        calls[l] + (IF l \in listeners[section] THEN 1 ELSE 0)
                 + (IF l \in listeners["all"] THEN 1 ELSE 0)]

\* notifyAllListeners(): every listener of every topic, "all" included
notifyAllListeners ==
    [l \in ListenerIds |-> calls[l] + Cardinality({t \in Topics : l \in listeners[t]})]

InitCommon ==
    /\ saveTimeout = None
    /\ rateAttempts = [create |-> <<>>, execute |-> [id \in ExecIds |-> <<>>]]
    /\ allowedAt = [create |-> <<>>, execute |-> [id \in ExecIds |-> <<>>]]
    /\ cache = [id \in PaymentIds |-> None]
    /\ creates = <<>>
    /\ flows = [id \in PaymentIds |-> 0]
    /\ now = 0
    /\ ticks = 0
    /\ storage = [global |-> None, lists |-> [m \in MerchantIds |-> None]]
    /\ ret = Ret("none", "", "none", Undefined, <<>>, None)
    /\ everPaid = {}
    /\ errors = <<>>
    /\ audits = <<>>
    /\ trackingIds = 0
    /\ mirrors = <<>>
    /\ auth = None

\* A tab opened on empty storage: the constructor leaves DEFAULT_STATE in place.
Init ==
    /\ InitCommon
    /\ inbox = <<>>
    /\ \E pi \in BOOLEAN : state = DEFAULT_STATE("m1", pi, 0)
    /\ Opened

\* A tab opened on empty storage in the Pi Browser
InitPiBrowser ==
    /\ InitCommon
    /\ inbox = <<>>
    /\ state = DEFAULT_STATE("m1", TRUE, 0)
    /\ Opened

\* ------------------------------------------------------------------------
\* Ledger store calls
\* ------------------------------------------------------------------------
\* unifiedStore.createPaymentWithId(id, amount, note, createdAt), as the payment
\* views call it, createdAt being the current time
StoreCreatePaymentWithId(id, amount, note) ==
    LET r == createPaymentWithId(state, id, amount, note, now)
    IN  /\ Len(state.payments) < MaxPayments
        /\ state' = r.state
        /\ saveTimeout' = Armed
        /\ ret' = Ret("createPaymentWithId", id, "created", Undefined, <<>>, Some(r.payment))
        /\ Unshifted
        /\ calls' = notify("payments")
        /\ UNCHANGED <<rateAttempts, cache, creates, flows, now, ticks, storage, everPaid, allowedAt, inbox,
                   errors, audits, trackingIds, mirrors,
                       listeners, auth>>

\* unifiedStore.getPayment(id)
StoreGetPayment(id) ==
    LET found == getPayment(state, id)
    IN  /\ ret' = Ret("getPayment", id, IF found = None THEN "undefined" ELSE "found",
                      Undefined, <<>>, found)
        /\ UNCHANGED <<state, saveTimeout, rateAttempts, cache, creates, flows, now, ticks,
                       storage, everPaid, allowedAt, inbox,
                   errors, audits, trackingIds, mirrors,
                       defaults, shared, alias, listeners, calls, auth>>

\* unifiedStore.getPaymentStats(), as the dashboard calls it
StoreGetPaymentStats ==
    /\ ret' = Ret("getPaymentStats", "", "stats", Undefined, <<>>, Some(getPaymentStats(state)))
    /\ UNCHANGED <<state, saveTimeout, rateAttempts, cache, creates, flows, now, ticks,
                   storage, everPaid, allowedAt, inbox,
                   errors, audits, trackingIds, mirrors,
                   defaults, shared, alias, listeners, calls, auth>>

\* unifiedStore.updatePaymentStatus(id, status, txid), called directly
StoreUpdatePaymentStatus(id, status, txid) ==
    LET r == updatePaymentStatus(state, id, status, txid, now)
    IN  /\ state' = r.state
        /\ saveTimeout' = IF r.result THEN Armed ELSE saveTimeout
        /\ ret' = Ret("updatePaymentStatus", id, IF r.result THEN "true" ELSE "false",
                      Undefined, <<>>, None)
        /\ everPaid' = IF r.result /\ status = "PAID" THEN everPaid \cup {id} ELSE everPaid
        /\ RecordWritten(id)
        /\ calls' = IF r.result THEN notify("payments") ELSE calls
        /\ UNCHANGED <<rateAttempts, cache, creates, flows, now, ticks, storage, allowedAt, inbox,
                   errors, audits, trackingIds, mirrors,
                       listeners, auth>>

\* unifiedStore.clearAllPayments()
StoreClearAllPayments ==
    /\ state' = clearAllPayments(state)
    /\ saveTimeout' = Armed
    /\ Filtered
    /\ calls' = notify("payments")
    /\ UNCHANGED <<rateAttempts, cache, creates, flows, now, ticks, storage, ret, everPaid,
                   allowedAt, inbox,
                   errors, audits, trackingIds, mirrors,
                   listeners, auth>>

\* unifiedStore.updateSession({ currentMerchantId })
StoreUpdateSession(merchantId) ==
    /\ state' = [state EXCEPT !.session.currentMerchantId = merchantId]
    /\ saveTimeout' = Armed
    /\ Reassigned("session")
    /\ calls' = notify("session")
    /\ UNCHANGED <<rateAttempts, cache, creates, flows, now, ticks, storage, ret, everPaid,
                   allowedAt, inbox,
                   errors, audits, trackingIds, mirrors,
                   listeners, auth>>

\* unifiedStore.updateWalletStatus(updates): the wallet poll and authentication
StoreUpdateWalletStatus(available, connected) ==
    /\ state' = [state EXCEPT !.wallet.isPiSDKAvailable = available,
                              !.wallet.isConnected = connected]
    /\ saveTimeout' = Armed
    /\ Reassigned("wallet")
    /\ calls' = notify("wallet")
    /\ UNCHANGED <<rateAttempts, cache, creates, flows, now, ticks, storage, ret, everPaid,
                   allowedAt, inbox,
                   errors, audits, trackingIds, mirrors,
                   listeners, auth>>

\* The interval callback of setupWalletCheck, every 5 s, in a tab whose
\* window.Pi is `available`: updateWalletStatus when the state says otherwise
WalletPoll(available) ==
    /\ available # state.wallet.isPiSDKAvailable
    /\ StoreUpdateWalletStatus(available, state.wallet.isConnected)

\* What another tab whose window.Pi is `available` writes at time t after its
\* own wallet poll corrected the state it holds
OtherTabPolled(held, available, t) ==
    [held EXCEPT !.wallet.isPiSDKAvailable = available, !.lastUpdated = t]

\* unifiedStore.setMasterEnabled(enabled)
StoreSetMasterEnabled(enabled) ==
    /\ state' = [state EXCEPT !.domainState.masterEnabled = enabled]
    /\ saveTimeout' = Armed
    /\ InPlace("domainState")
    /\ calls' = notify("domainState")
    /\ UNCHANGED <<rateAttempts, cache, creates, flows, now, ticks, storage, ret, everPaid,
                   allowedAt, inbox,
                   errors, audits, trackingIds, mirrors,
                   listeners, auth>>

\* unifiedStore.setDomainEnabled(domainId, enabled)
StoreSetDomainEnabled(domainId, enabled) ==
    LET r == setDomainEnabled(state, domainId, enabled)
    IN  /\ state' = r.state
        /\ saveTimeout' = IF r.result THEN Armed ELSE saveTimeout
        /\ ret' = Ret("setDomainEnabled", domainId, IF r.result THEN "true" ELSE "false",
                      Undefined, <<>>, None)
        /\ InPlace("domainState")
        /\ calls' = IF r.result THEN notify("domainState") ELSE calls
        /\ UNCHANGED <<rateAttempts, cache, creates, flows, now, ticks, storage, everPaid,
                       allowedAt, inbox, errors, audits, trackingIds, mirrors,
                       listeners, auth>>

\* { ...merchant, ...updates } for a Partial<MerchantState>: the fields updates
\* carries replace those of merchant
Spread(section, updates) ==
    [f \in DOMAIN section |-> IF f \in DOMAIN updates THEN updates[f] ELSE section[f]]

\* unifiedStore.updateMerchantState(updates)
StoreUpdateMerchantState(updates) ==
    /\ state' = [state EXCEPT !.merchant = Spread(@, updates)]
    /\ saveTimeout' = Armed
    /\ Reassigned("merchant")
    /\ calls' = notify("merchant")
    /\ UNCHANGED <<rateAttempts, cache, creates, flows, now, ticks, storage, ret, everPaid,
                   allowedAt, inbox, errors, audits, trackingIds, mirrors, listeners, auth>>

\* unifiedStore.completeMerchantSetup(piUsername): a new merchant object, and
\* session.currentMerchantId written in place
StoreCompleteMerchantSetup ==
    /\ state' = [state EXCEPT !.merchant.isSetupComplete = TRUE,
                              !.session.currentMerchantId = state.merchant.merchantId]
    /\ saveTimeout' = Armed
    /\ InPlace("session")
    /\ calls' = notify("merchant")
    /\ UNCHANGED <<rateAttempts, cache, creates, flows, now, ticks, storage, ret, everPaid,
                   allowedAt, inbox, errors, audits, trackingIds, mirrors, listeners, auth>>

\* unifiedStore.resetState(): this.state = { ...DEFAULT_STATE } takes back the
\* objects DEFAULT_STATE holds, as the in-place writes have left them, and
\* the lastUpdated of the page load
StoreResetState ==
    /\ state' = defaults
    /\ saveTimeout' = Armed
    /\ shared' = WrittenInPlace
    /\ alias' = [i \in 1..Len(defaults.payments) |-> i]
    /\ calls' = notifyAllListeners
    /\ UNCHANGED <<rateAttempts, cache, creates, flows, now, ticks, storage, ret, everPaid,
                   allowedAt, inbox, errors, audits, trackingIds, mirrors, listeners,
                   defaults, auth>>

\* unifiedStore.subscribe(section, listener): Set.add
StoreSubscribe(topic, listener) ==
    /\ listeners' = [listeners EXCEPT ![topic] = @ \cup {listener}]
    /\ UNCHANGED <<state, saveTimeout, rateAttempts, cache, creates, flows, now, ticks,
                   storage, ret, everPaid, allowedAt, inbox, errors, audits, trackingIds,
                   mirrors, defaults, shared, alias, calls, auth>>

\* The function subscribe(section, listener) returned is called: Set.delete
StoreUnsubscribe(topic, listener) ==
    /\ listeners' = [listeners EXCEPT ![topic] = @ \ {listener}]
    /\ UNCHANGED <<state, saveTimeout, rateAttempts, cache, creates, flows, now, ticks,
                   storage, ret, everPaid, allowedAt, inbox, errors, audits, trackingIds,
                   mirrors, defaults, shared, alias, calls, auth>>

\* unifiedStore.isMasterEnabled(): reading masterEnabled of a domainState that
\* is undefined throws a TypeError
isMasterEnabled(st) ==
    IF "masterEnabled" \notin DOMAIN st.domainState THEN "TypeError"
    ELSE IF st.domainState.masterEnabled THEN "true" ELSE "false"

StoreIsMasterEnabled ==
    /\ ret' = Ret("isMasterEnabled", "", isMasterEnabled(state),
                  IF isMasterEnabled(state) = "TypeError" THEN "TypeError" ELSE Undefined,
                  <<>>, None)
    /\ UNCHANGED <<state, saveTimeout, rateAttempts, cache, creates, flows, now, ticks,
                   storage, everPaid, allowedAt, inbox, errors, audits, trackingIds, mirrors,
                   defaults, shared, alias, listeners, calls, auth>>

\* domainStore.canAccessRoute(route), route being [name, chars]
DomainCanAccessRoute(route) ==
    /\ ret' = Ret("canAccessRoute", route.name,
                  IF canAccessRoute(route.chars) THEN "true" ELSE "false",
                  Undefined, <<>>, None)
    /\ UNCHANGED <<state, saveTimeout, rateAttempts, cache, creates, flows, now, ticks,
                   storage, everPaid, allowedAt, inbox, errors, audits, trackingIds, mirrors,
                   defaults, shared, alias, listeners, calls, auth>>

\* ------------------------------------------------------------------------
\* Operation orchestrator
\* ------------------------------------------------------------------------
RemoveAt(seq, i) == SubSeq(seq, 1, i - 1) \o SubSeq(seq, i + 1, Len(seq))

\* createPayment(amount, note) up to its await of the backend: the guard chain,
\* and on pass the POST /api/payments request
CreatePaymentStart(amount, note) ==
    LET rl == RateLimiterCheck(rateAttempts.create, RATE_LIMITS.CREATE_PAYMENT, now)
        g == CreatePaymentGuards(state, rl, amount, note)
        trackingId == generateTrackingId(trackingIds, now)
        logged == IF ~rl.allowed
                  THEN "Rate limit exceeded. Please wait before creating another payment."
                  ELSE g.error
        r == Ret("createPayment", "", IF g.passed THEN "pending" ELSE "failure",
                 g.error, g.evaluated, None)
    IN  /\ g.passed => Len(creates) < MaxCreates
        /\ rateAttempts' = [rateAttempts EXCEPT !.create = rl.attempts]
        /\ allowedAt' = IF rl.allowed THEN [allowedAt EXCEPT !.create = Append(@, now)]
                        ELSE allowedAt
        /\ creates' = IF g.passed THEN Append(creates, [amount |-> amount, note |-> note])
                      ELSE creates
        /\ IF g.passed
           THEN /\ ret' = r
                /\ UNCHANGED <<errors, trackingIds>>
           ELSE /\ errors' = logError(errors, OperationError(trackingId, now, "createPayment",
                                                              logged, ""))
                /\ trackingIds' = trackingIds + 1
                /\ ret' = Tracked(r, trackingId)
        /\ UNCHANGED <<state, saveTimeout, cache, flows, now, ticks, storage, everPaid, inbox,
                       audits, mirrors,
                       defaults, shared, alias, listeners, calls, auth>>

\* How the POST /api/payments of createPayment can fail
ProviderFailures == {"network error", "non-OK status", "non-JSON reply"}

\* A reply that is never taken for a failure
ReplyFailed_Never(reply) == FALSE

\* The replies that make createPayment throw: fetch rejects, response.ok is
\* false, or the content type is not JSON
ReplyFailed(reply) == reply \in ProviderFailures

\* The message of the error thrown
FailureMessage(reply) ==
    IF reply = "network error" THEN "Failed to fetch"
    ELSE IF reply = "non-OK status" THEN "Failed to create payment: <statusText>"
    ELSE "API returned non-JSON response: <text>"

\* createPayment after the await: reply is a failure of the request or the id
\* the backend minted
CreatePaymentFinish(i, reply) ==
    LET req == creates[i]
        r == createPaymentWithId(state, reply, req.amount, req.note, now)
        trackingId == generateTrackingId(trackingIds, now)
    IN  /\ i \in 1..Len(creates)
        /\ creates' = RemoveAt(creates, i)
        /\ trackingIds' = trackingIds + 1
        /\ IF ReplyFailed(reply)
           THEN /\ errors' = logError(errors, OperationError(trackingId, now, "createPayment",
                                                              FailureMessage(reply), ""))
                /\ ret' = Tracked(Ret("createPayment", "", "failure",
                                      FailureMessage(reply), <<>>, None), trackingId)
                /\ UNCHANGED <<state, saveTimeout, cache, audits>>
           ELSE /\ Len(state.payments) < MaxPayments
                /\ state' = r.state
                /\ saveTimeout' = Armed
                /\ cache' = [cache EXCEPT ![reply] = Some(r.payment)]
                /\ audits' = auditLog(audits, AuditEntry(trackingId, now, "createPayment",
                                                         reply, "success"))
                /\ ret' = Tracked(Ret("createPayment", reply, "success", Undefined, <<>>,
                                      Some(r.payment)), trackingId)
                /\ UNCHANGED errors
        /\ Unshifted
        /\ calls' = IF ReplyFailed(reply) THEN calls ELSE notify("payments")
        /\ UNCHANGED <<rateAttempts, flows, now, ticks, storage, everPaid, allowedAt, inbox,
                       mirrors,
                       listeners, auth>>

\* The record GET /api/payments/<id> returns: the backend keeps no merchantId
\* and lower-case statuses.
ServerPayment(id, status) ==
    [id |-> id, merchantId |-> Undefined, amount |-> Num(5, 0), note |-> Note(0),
     status |-> status, createdAt |-> 0,
     paidAt |-> IF status = "paid" THEN Some(0) ELSE None,
     txid |-> IF status = "paid" THEN "tx1" ELSE Undefined]

\* getPaymentFromServer(id): the ledger, then the secondary cache, then the
\* backend, whose reply is None (no usable answer) or Some(status).  addPayment
\* looks the id up again when the reply arrives, so the await adds no ledger
\* outcome beyond those of this one step.
GetPaymentFromServer(id, reply) ==
    LET localPayment == getPayment(state, id)
        restored == IF cache[id] # None THEN cache[id]
                    ELSE IF reply # None THEN Some(ServerPayment(id, reply[1]))
                    ELSE None
        a == addPayment(state, restored[1])
    IN  /\ IF localPayment # None
           THEN /\ ret' = Ret("getPaymentFromServer", id, "found", Undefined, <<>>, localPayment)
                /\ UNCHANGED <<state, saveTimeout>>
           ELSE IF restored = None
           THEN /\ ret' = Ret("getPaymentFromServer", id, "null", Undefined, <<>>, None)
                /\ UNCHANGED <<state, saveTimeout>>
           ELSE /\ a.changed => Len(state.payments) < MaxPayments
                /\ state' = a.state
                /\ saveTimeout' = IF a.changed THEN Armed ELSE saveTimeout
                /\ ret' = Ret("getPaymentFromServer", id, "found", Undefined, <<>>, restored)
        /\ Unshifted
        /\ calls' = IF localPayment = None /\ restored # None /\ a.changed
                    THEN notify("payments") ELSE calls
        /\ UNCHANGED <<rateAttempts, cache, creates, flows, now, ticks, storage, everPaid, allowedAt, inbox,
                   errors, audits, trackingIds, mirrors,
                       listeners, auth>>

\* executePayment that also rejects a FAILED or CANCELLED record
executePaymentError_NoRetry(st, id, allowed) ==
    LET idValidation == validatePaymentId(id)
        payment == getPayment(st, id)
    IN  IF ~allowed THEN "Too many payment attempts. Please wait a moment."
        ELSE IF ~idValidation.valid THEN idValidation.error
        ELSE IF payment = None THEN "Payment not found"
        ELSE IF payment[1].status # "PENDING"
        THEN "This payment has already been completed"
        ELSE Undefined

\* The message executePayment hands to onError, or Undefined when it goes on
\* to start the provider flow; allowed is the rate limiter's answer
executePaymentError(st, id, allowed) ==
    LET idValidation == validatePaymentId(id)
        payment == getPayment(st, id)
    IN  IF ~allowed THEN "Too many payment attempts. Please wait a moment."
        ELSE IF ~idValidation.valid THEN idValidation.error
        ELSE IF payment = None THEN "Payment not found"
        ELSE IF payment[1].status = "PAID"
        THEN "This payment has already been completed"
        ELSE Undefined

\* canRetryPayment(id)
canRetryPayment(st, id) ==
    LET payment == getPayment(st, id)
    IN  payment # None /\ payment[1].status \in {"FAILED", "CANCELLED"}

\* executePayment(paymentId, onSuccess, onError) up to createPiPayment: each
\* rejection is logged to the error trail and reported through onError with
\* the entry's tracking id; a start is audited.  A missing Pi SDK makes
\* createPiPayment call the error callback at once, which is the
\* ProviderFailed step taken with nothing in between.
ExecutePayment(id) ==
    LET rl == RateLimiterCheck(rateAttempts.execute[id], RATE_LIMITS.EXECUTE_PAYMENT, now)
        idValidation == validatePaymentId(id)
        payment == getPayment(state, id)
        error == executePaymentError(state, id, rl.allowed)
        logged == IF ~rl.allowed THEN "Rate limit exceeded for payment execution"
                  ELSE IF ~idValidation.valid THEN idValidation.error
                  ELSE IF payment = None THEN "Payment not found"
                  ELSE "Payment already completed"
        trackingId == generateTrackingId(trackingIds, now)
    IN  /\ error = Undefined => flows[id] < MaxFlows
        /\ rateAttempts' = [rateAttempts EXCEPT !.execute[id] = rl.attempts]
        /\ allowedAt' = IF rl.allowed THEN [allowedAt EXCEPT !.execute[id] = Append(@, now)]
                        ELSE allowedAt
        /\ flows' = IF error = Undefined THEN [flows EXCEPT ![id] = @ + 1] ELSE flows
        /\ trackingIds' = trackingIds + 1
        /\ IF error = Undefined
           THEN /\ audits' = auditLog(audits, AuditEntry(trackingId, now, "executePayment",
                                                         id, "success"))
                /\ ret' = Ret("executePayment", id, "started", error, <<>>, None)
                /\ UNCHANGED errors
           ELSE /\ errors' = logError(errors, OperationError(trackingId, now, "executePayment",
                                                              logged, id))
                /\ ret' = Tracked(Ret("executePayment", id, "failure", error, <<>>, None),
                                  trackingId)
                /\ UNCHANGED audits
        /\ UNCHANGED <<state, saveTimeout, cache, creates, now, ticks, storage, everPaid, inbox,
                       mirrors,
                       defaults, shared, alias, listeners, calls, auth>>

\* The success callback of executePayment up to its await: the provider
\* reports completion with a txid, the ledger is updated and the PATCH that
\* mirrors the status to the backend is sent.
ProviderCompleted(id, txid) ==
    LET r == updatePaymentStatus(state, id, "PAID", txid, now)
    IN  /\ flows[id] > 0
        /\ flows' = [flows EXCEPT ![id] = @ - 1]
        /\ state' = r.state
        /\ saveTimeout' = IF r.result THEN Armed ELSE saveTimeout
        /\ everPaid' = IF r.result THEN everPaid \cup {id} ELSE everPaid
        /\ mirrors' = Append(mirrors, [callback |-> "success", id |-> id, status |-> "PAID",
                                        txid |-> txid, success |-> r.result,
                                        error |-> Undefined])
        /\ RecordWritten(id)
        /\ calls' = IF r.result THEN notify("payments") ELSE calls
        /\ UNCHANGED <<rateAttempts, cache, creates, now, ticks, storage, ret, allowedAt, inbox,
                       errors, audits, trackingIds,
                       listeners, auth>>

\* A variant of the provider's callbacks that reports every failure alike
onErrorMessage_Generic(isCancelled, message) ==
    IF isCancelled THEN "Payment was cancelled" ELSE "Payment failed"

\* createPiPayment's onCancel and onError: what they hand to the error
\* callback of executePayment for the provider's error.message
onErrorMessage(isCancelled, message) ==
    IF isCancelled THEN "Payment was cancelled"
    ELSE IF message = "" THEN "Payment failed"
    ELSE message

\* The error callback of executePayment up to its await: the user cancelled,
\* or the provider failed with an Error carrying message; the value
\* updatePaymentStatus returns is dropped.
ProviderEnded(id, isCancelled, message) ==
    LET status == IF isCancelled THEN "CANCELLED" ELSE "FAILED"
        r == updatePaymentStatus(state, id, status, Undefined, now)
    IN  /\ flows[id] > 0
        /\ flows' = [flows EXCEPT ![id] = @ - 1]
        /\ state' = r.state
        /\ saveTimeout' = IF r.result THEN Armed ELSE saveTimeout
        /\ mirrors' = Append(mirrors, [callback |-> "error", id |-> id, status |-> status,
                                        txid |-> Undefined, success |-> r.result,
                                        error |-> onErrorMessage(isCancelled, message)])
        /\ RecordWritten(id)
        /\ calls' = IF r.result THEN notify("payments") ELSE calls
        /\ UNCHANGED <<rateAttempts, cache, creates, now, ticks, storage, ret, everPaid,
                       allowedAt, inbox, errors, audits, trackingIds,
                       listeners, auth>>

\* The same callback for a provider Error without a message
ProviderFailed(id, isCancelled) == ProviderEnded(id, isCancelled, "")

\* How the backend PATCH of a callback can end
MirrorReplies == {"ok", "error", "throws"}

\* A success callback that reports an error when the PATCH throws
AfterMirror_ThrowFails(m, reply) ==
    IF m.callback = "success"
    THEN IF m.success /\ reply # "throws"
         THEN [outcome |-> "onSuccess", error |-> Undefined]
         ELSE [outcome |-> "onError",
               error |-> "Payment was already completed by another transaction"]
    ELSE [outcome |-> "onError", error |-> m.error]

\* What a callback of executePayment reports once its await of the PATCH is
\* over: the reply is not read and a throw is caught and dropped, so the
\* report depends on the callback and on what updatePaymentStatus returned.
AfterMirror(m, reply) ==
    IF m.callback = "success"
    THEN IF m.success
         THEN [outcome |-> "onSuccess", error |-> Undefined]
         ELSE [outcome |-> "onError",
               error |-> "Payment was already completed by another transaction"]
    ELSE [outcome |-> "onError", error |-> m.error]

\* The rest of a callback of executePayment, after the await of the i-th
\* pending PATCH: the audit or error entry, then onSuccess or onError
MirrorSettled(i, reply) ==
    LET m == mirrors[i]
        report == AfterMirror(m, reply)
        trackingId == generateTrackingId(trackingIds, now)
        second == generateTrackingId(trackingIds + 1, now)
    IN  /\ i \in 1..Len(mirrors)
        /\ reply \in MirrorReplies
        /\ mirrors' = RemoveAt(mirrors, i)
        /\ IF m.callback = "success" /\ report.outcome = "onSuccess"
           THEN /\ audits' = auditLog(audits, AuditEntry(trackingId, now, "paymentCompleted",
                                                         m.id, "success"))
                /\ trackingIds' = trackingIds + 1
                /\ ret' = Ret("paymentCompleted", m.id, "onSuccess", Undefined, <<>>, None)
                /\ UNCHANGED errors
           ELSE IF m.callback = "success"
           THEN /\ errors' = logError(errors,
                                      OperationError(trackingId, now, "executePayment",
                                          "Failed to update payment status (race condition)",
                                          ""))
                /\ trackingIds' = trackingIds + 1
                /\ ret' = Tracked(Ret("paymentCompleted", m.id, "onError", report.error,
                                      <<>>, None), trackingId)
                /\ UNCHANGED audits
           ELSE /\ errors' = logError(errors, OperationError(trackingId, now, "executePayment",
                                                              m.error, m.id))
                /\ audits' = auditLog(audits, AuditEntry(second, now, "executePayment",
                                                         m.id, "failure"))
                /\ trackingIds' = trackingIds + 2
                /\ ret' = Tracked(Ret("paymentFailed", m.id, "onError", report.error,
                                      <<>>, None), trackingId)
        /\ UNCHANGED <<state, saveTimeout, rateAttempts, cache, creates, flows, now, ticks,
                       storage, everPaid, allowedAt, inbox,
                       defaults, shared, alias, listeners, calls, auth>>

\* errorTracker.logError(operation, error) called directly
ErrorTrackerLogError(operation, error) ==
    LET trackingId == generateTrackingId(trackingIds, now)
    IN  /\ errors' = logError(errors, OperationError(trackingId, now, operation, error, ""))
        /\ trackingIds' = trackingIds + 1
        /\ ret' = Tracked(Ret("logError", "", "logged", error, <<>>, None), trackingId)
        /\ UNCHANGED <<state, saveTimeout, rateAttempts, cache, creates, flows, now, ticks,
                       storage, everPaid, allowedAt, inbox, audits, mirrors,
                       defaults, shared, alias, listeners, calls, auth>>

\* auditLogger.log(operation, details, outcome) called directly
AuditLoggerLog(operation, outcome) ==
    LET trackingId == generateTrackingId(trackingIds, now)
    IN  /\ audits' = auditLog(audits, AuditEntry(trackingId, now, operation, "", outcome))
        /\ trackingIds' = trackingIds + 1
        /\ ret' = Tracked(Ret("log", "", outcome, Undefined, <<>>, None), trackingId)
        /\ UNCHANGED <<state, saveTimeout, rateAttempts, cache, creates, flows, now, ticks,
                       storage, everPaid, allowedAt, inbox, errors, mirrors,
                       defaults, shared, alias, listeners, calls, auth>>

\* rateLimiter.check(key, config) called directly
RateLimiterCall(id) ==
    LET rl == RateLimiterCheck(rateAttempts.execute[id], RATE_LIMITS.EXECUTE_PAYMENT, now)
    IN  /\ rateAttempts' = [rateAttempts EXCEPT !.execute[id] = rl.attempts]
        /\ allowedAt' = IF rl.allowed THEN [allowedAt EXCEPT !.execute[id] = Append(@, now)]
                        ELSE allowedAt
        /\ ret' = Ret("rateLimiter.check", id, IF rl.allowed THEN "allowed" ELSE "denied",
                      Undefined, <<>>, None)
        /\ UNCHANGED <<state, saveTimeout, cache, creates, flows, now, ticks, storage, everPaid, inbox,
                   errors, audits, trackingIds, mirrors,
                       defaults, shared, alias, listeners, calls, auth>>

\* ------------------------------------------------------------------------
\* Environment: the clock, the debounce timer, other tabs
\* ------------------------------------------------------------------------
Tick(d, maxTicks) ==
    /\ ticks < maxTicks
    /\ now' = now + d
    /\ ticks' = ticks + 1
    /\ UNCHANGED <<state, saveTimeout, rateAttempts, cache, creates, flows, storage, ret,
                   everPaid, allowedAt, inbox,
                   errors, audits, trackingIds, mirrors,
                   defaults, shared, alias, listeners, calls, auth>>

\* How far the timer callback of saveToStorage gets: both setItem calls
\* succeed, the second throws, or the first throws
WriteOutcomes == {"both", "global", "none"}

\* Variant of the timer callback that stores the whole in-memory list
saveToStorageTimer_Unfiltered(st, stg, t, written) ==
    LET stamped == [st EXCEPT !.lastUpdated = t]
        merchantId == st.merchant.merchantId
    IN  [state |-> stamped,
         storage |->
            [global |-> IF written \in {"both", "global"}
                        THEN Some([stamped EXCEPT !.payments = <<>>])
                        ELSE stg.global,
             lists |-> IF written = "both"
                       THEN [m \in DOMAIN stg.lists \cup {merchantId} |->
                                IF m = merchantId
                                THEN Some(st.payments)
                                ELSE stg.lists[m]]
                       ELSE stg.lists]]

\* The timer callback of saveToStorage at time t: stamp lastUpdated, write the
\* global snapshot without payments, then the list of merchant.merchantId;
\* a setItem that throws ends the callback in its catch
saveToStorageTimer(st, stg, t, written) ==
    LET stamped == [st EXCEPT !.lastUpdated = t]
        merchantId == st.merchant.merchantId
    IN  [state |-> stamped,
         storage |->
            [global |-> IF written \in {"both", "global"}
                        THEN Some([stamped EXCEPT !.payments = <<>>])
                        ELSE stg.global,
             lists |-> IF written = "both"
                       THEN [m \in DOMAIN stg.lists \cup {merchantId} |->
                                IF m = merchantId
                                THEN Some(FilterMerchant(st.payments, merchantId))
                                ELSE stg.lists[m]]
                       ELSE stg.lists]]

\* The timer of saveToStorage fires
Flush(written) ==
    LET r == saveToStorageTimer(state, storage, now, written)
    IN  /\ saveTimeout # None
        /\ now >= saveTimeout[1]
        /\ state' = r.state
        /\ saveTimeout' = None
        /\ storage' = r.storage
        /\ UNCHANGED <<rateAttempts, cache, creates, flows, now, ticks, ret, everPaid,
                       allowedAt, inbox, errors, audits, trackingIds, mirrors,
                       defaults, shared, alias, listeners, calls, auth>>

\* JSON.parse(JSON.stringify(amount)): NaN and the infinities come back as null
Null == [kind |-> "null", whole |-> 0, frac8 |-> 0]

JsonAmount(amount) ==
    IF amount.kind \in {"NaN", "Infinity"} THEN Null ELSE amount

\* A stored list as loadMerchantPayments rebuilds it: createdAt and paidAt go
\* through an ISO string and new Date, which keeps the millisecond; a txid
\* that is undefined is dropped and read back as undefined
JsonPayments(payments) ==
    [i \in 1..Len(payments) |-> [payments[i] EXCEPT !.amount = JsonAmount(@)]]

\* !value for the merchant ids: the empty string and undefined are falsy
Falsy(value) == value \in {"", Undefined}

\* How a read of localStorage can go: the text parses, getItem throws, or the
\* text is not the JSON of a snapshot
ReadOutcomes == {"ok", "throws", "corrupt"}

\* loadMerchantPayments(): the list under the key of merchant.merchantId takes
\* the place of the payments, unless there is none or reading it fails
loadMerchantPayments(st, stg, listRead) ==
    LET merchantId == st.merchant.merchantId
    IN  IF listRead # "ok" THEN st
        ELSE IF merchantId \notin DOMAIN stg.lists THEN st
        ELSE IF stg.lists[merchantId] = None THEN st
        ELSE [st EXCEPT !.payments = JsonPayments(stg.lists[merchantId][1])]

\* loadFromStorage() over the defaults dflt: the state the constructor ends
\* with, and whether it is the parsed snapshot.  minted is what
\* generateMerchantId() returns when the snapshot has no merchant id (it is
\* not called otherwise).
loadFromStorage(stg, dflt, minted, read, listRead) ==
    IF read = "throws" THEN [state |-> dflt, parsed |-> FALSE]
    ELSE IF stg.global = None THEN [state |-> dflt, parsed |-> FALSE]
    ELSE IF read = "corrupt" THEN [state |-> dflt, parsed |-> FALSE]
    ELSE LET snapshot == stg.global[1]
             merchantId == IF Falsy(snapshot.merchant.merchantId) THEN minted
                           ELSE snapshot.merchant.merchantId
             currentMerchantId == IF Falsy(snapshot.session.currentMerchantId)
                                  THEN merchantId
                                  ELSE snapshot.session.currentMerchantId
             parsed == [snapshot EXCEPT !.merchant.merchantId = merchantId,
                                        !.session.currentMerchantId = currentMerchantId]
         IN  [state |-> loadMerchantPayments(parsed, stg, listRead), parsed |-> TRUE]

\* The merchant ids localStorage holds: that of the global snapshot and those
\* of the lists
StoredMerchantIds(stg) ==
    {m \in DOMAIN stg.lists : stg.lists[m] # None}
        \cup (IF stg.global = None THEN {} ELSE {stg.global[1].merchant.merchantId})

\* The page is loaded again: the module builds DEFAULT_STATE at the current
\* time around a newly generated merchant id, the constructor loads the
\* snapshot and checks the wallet (updateWalletStatus when window.Pi differs
\* from what the state says).  Everything the page held in memory is gone: the
\* pending timer, the subscribers, the rate limiter, the logs, the calls in
\* flight.
Reload(generated, minted, available, read, listRead) ==
    LET dflt == DEFAULT_STATE(generated, available, now)
        l == loadFromStorage(storage, dflt, minted, read, listRead)
        checked == l.state.wallet.isPiSDKAvailable # available
    IN  /\ generated \notin StoredMerchantIds(storage)
        /\ IF storage.global # None /\ Falsy(storage.global[1].merchant.merchantId)
           THEN minted \notin StoredMerchantIds(storage) \cup {generated}
           ELSE minted = generated
        /\ state' = [l.state EXCEPT !.wallet.isPiSDKAvailable = available]
        /\ saveTimeout' = IF checked THEN Armed ELSE None
        /\ defaults' = dflt
        /\ shared' = IF l.parsed THEN {} ELSE WrittenInPlace
        /\ alias' = [i \in 1..Len(l.state.payments) |-> 0]
        /\ listeners' = [t \in Topics |-> {}]
        /\ rateAttempts' = [create |-> <<>>, execute |-> [id \in ExecIds |-> <<>>]]
        /\ creates' = <<>>
        /\ flows' = [id \in PaymentIds |-> 0]
        /\ mirrors' = <<>>
        /\ inbox' = <<>>
        /\ errors' = <<>>
        /\ audits' = <<>>
        /\ ret' = Ret("constructor", "", "initialized", Undefined, <<>>, None)
        /\ auth' = None
        /\ UNCHANGED <<cache, now, ticks, storage, everPaid, allowedAt, trackingIds, calls>>

\* Another tab's debounced write of the global key reaches this tab as a
\* storage event carrying the snapshot written.
StorageEvent(newState) ==
    /\ state' = OnStorageEvent(state, newState)
    /\ storage' = [storage EXCEPT !.global = Some(newState)]
    /\ Replaced(newState)
    /\ calls' = IF state' # state THEN notifyAllListeners ELSE calls
    /\ UNCHANGED <<saveTimeout, rateAttempts, cache, creates, flows, now, ticks, ret,
                   everPaid, allowedAt, inbox,
                   errors, audits, trackingIds, mirrors,
                   listeners, auth>>

\* The timer callback of saveToStorage in another tab of the same browser: it
\* writes its snapshot under the global key and the records it holds under
\* the key of its merchant; the storage event of the global key reaches this
\* tab's listener, the one of the list key is ignored by it.
OtherTabWrite(newState, payments) ==
    /\ state' = OnStorageEvent(state, newState)
    /\ storage' = [global |-> Some(newState),
                   lists |-> [storage.lists EXCEPT
                                 ![newState.merchant.merchantId] = Some(payments)]]
    /\ inbox' = Append(inbox, [snapshot |-> newState, delivered |-> TRUE])
    /\ Replaced(newState)
    /\ calls' = IF state' # state THEN notifyAllListeners ELSE calls
    /\ UNCHANGED <<saveTimeout, rateAttempts, cache, creates, flows, now, ticks, ret,
                   everPaid, allowedAt,
                   errors, audits, trackingIds, mirrors,
                   listeners, auth>>

\* The storage event of the i-th notification on its way reaches the listener
DeliverStorageEvent(i) ==
    /\ i \in 1..Len(inbox)
    /\ ~inbox[i].delivered
    /\ inbox' = [inbox EXCEPT ![i].delivered = TRUE]
    /\ state' = OnStorageEvent(state, inbox[i].snapshot)
    /\ storage' = [storage EXCEPT !.global = Some(inbox[i].snapshot)]
    /\ Replaced(inbox[i].snapshot)
    /\ calls' = IF state' # state THEN notifyAllListeners ELSE calls
    /\ UNCHANGED <<saveTimeout, rateAttempts, cache, creates, flows, now, ticks, ret,
                   everPaid, allowedAt,
                   errors, audits, trackingIds, mirrors,
                   listeners, auth>>

\* What saveToStorage of another tab can have written: its state stamped t,
\* with an empty payment list
OtherTabSnapshot(t, currentMerchantId, masterEnabled, connected) ==
    [DEFAULT_STATE("m1", TRUE, t) EXCEPT
        !.session.currentMerchantId = currentMerchantId,
        !.domainState.masterEnabled = masterEnabled,
        !.wallet.isConnected = connected]

\* What saveToStorage of a tab opened on empty storage writes before any other
\* call: its DEFAULT_STATE, built around the merchant id generated for that
\* page load, stamped t
OtherTabOpened(generatedId, t) ==
    DEFAULT_STATE(generatedId, TRUE, t)

\* ------------------------------------------------------------------------
\* Spec: the ledger store of one tab shared by two merchants, under direct
\* store calls
\* ------------------------------------------------------------------------
Next ==
    \/ \E id \in PaymentIds : StoreCreatePaymentWithId(id, Num(5, 0), Note(0))
    \/ \E id \in PaymentIds, status \in PaymentStatus :
          StoreUpdatePaymentStatus(id, status, "tx1")
    \/ \E m \in MerchantIds : StoreUpdateSession(m)

Spec == Init /\ [][Next]_vars

\* C1: the in-memory ledger never holds two records with the same id.
C1_NoDuplicateIds ==
    \A i, j \in 1..Len(state.payments) :
        state.payments[i].id = state.payments[j].id => i = j

\* C3: updatePaymentStatus(id, s, txid) on a record that is already PAID
\* returns false, for every status s and txid, and leaves the ledger (hence
\* the record's status, paidAt and txid) as it was.
C3_PaidRejectsUpdate ==
    \A id \in PaymentIds, s \in PaymentStatus, txid \in Txids \cup {Undefined} :
        LET found == getPayment(state, id)
            r == updatePaymentStatus(state, id, s, txid, now + 1)
        IN  (found # None /\ found[1].status = "PAID")
                => (r.result = FALSE /\ r.state = state)

\* C3 witness: updatePaymentStatus was called on a PAID record and returned false
C3_Witness ==
    /\ ret.op = "updatePaymentStatus"
    /\ ret.outcome = "false"
    /\ getPayment(state, ret.id) # None
    /\ getPayment(state, ret.id)[1].status = "PAID"

\* C5: getAllPayments() returns only records whose merchantId is the active
\* merchant's, and returns every such record of the ledger, once each.
C5_MerchantScopedList ==
    LET all == getAllPayments(state)
        m == CurrentMerchantId(state)
        own == {j \in 1..Len(state.payments) : state.payments[j].merchantId = m}
    IN  /\ \A i \in 1..Len(all) : all[i].merchantId = m
        /\ \A j \in own : \E i \in 1..Len(all) : all[i] = state.payments[j]
        /\ Len(all) = Cardinality(own)

\* C5 witness: the ledger holds a record of each merchant and the list is not empty
C5_Witness ==
    /\ \E i, j \in 1..Len(state.payments) :
          state.payments[i].merchantId # state.payments[j].merchantId
    /\ getAllPayments(state) # <<>>
    /\ Len(getAllPayments(state)) < Len(state.payments)

\* ------------------------------------------------------------------------
\* SpecIso: one payment id in a ledger shared by two merchants, read,
\* updated and executed by id under either merchant
\* ------------------------------------------------------------------------
NextIso ==
    \/ StoreCreatePaymentWithId("p1", Num(5, 0), Note(0))
    \/ \E m \in MerchantIds : StoreUpdateSession(m)
    \/ \E id \in PaymentIds : StoreGetPayment(id)
    \/ \E id \in PaymentIds : StoreUpdatePaymentStatus(id, "PAID", "tx1")
    \/ \E id \in PaymentIds :
          Len(allowedAt.execute[id]) < MaxCalls /\ ExecutePayment(id)

SpecIso == InitPiBrowser /\ [][NextIso]_vars

\* The record with this id, found first, belongs to a merchant other than the active one
Foreign(st, id) ==
    LET i == FindIndex(st.payments, id)
    IN  i # 0 /\ st.payments[i].merchantId # CurrentMerchantId(st)

\* C6: when the record with an id belongs to another merchant, getPayment(id)
\* returns nothing, updatePaymentStatus(id, ...) returns false and changes
\* nothing, and executePayment(id) fails with "Payment not found" without
\* starting a provider flow -- the outcome it reports for an id the ledger
\* does not hold.
C6_IsolationById ==
    [][\A id \in PaymentIds :
          (Foreign(state, id) \/ FindIndex(state.payments, id) = 0) =>
            /\ StoreGetPayment(id) => ret'.outcome = "undefined" /\ ret'.payment = None
            /\ \A s \in PaymentStatus :
                  updatePaymentStatus(state, id, s, "tx1", now)
                      = [state |-> state, result |-> FALSE]
            /\ StoreUpdatePaymentStatus(id, "PAID", "tx1")
                  => ret'.outcome = "false" /\ state' = state
            /\ (ExecutePayment(id)
                 /\ RateLimiterCheck(rateAttempts.execute[id], RATE_LIMITS.EXECUTE_PAYMENT,
                                     now).allowed)
                      => /\ ret'.outcome = "failure"
                         /\ ret'.error = "Payment not found"
                         /\ flows' = flows
                         /\ state' = state]_vars

\* C6 witness: executePayment reported "Payment not found" for an id whose
\* record is in the ledger under another merchant
C6_Witness ==
    /\ ret.op = "executePayment"
    /\ ret.error = "Payment not found"
    /\ Foreign(state, ret.id)

\* ------------------------------------------------------------------------
\* SpecPay: the life of one payment in one tab: createPayment, executePayment
\* with the provider's callbacks, restores by getPaymentFromServer and updates
\* from another tab
\* ------------------------------------------------------------------------
\* The tab was loaded, in the Pi Browser, from the snapshot an earlier visit
\* of merchant "m1" saved at time 0 with an empty ledger: its state carries the
\* lastUpdated of that write.
InitPay ==
    /\ saveTimeout = None
    /\ rateAttempts = [create |-> <<>>, execute |-> [id \in ExecIds |-> <<>>]]
    /\ allowedAt = [create |-> <<>>, execute |-> [id \in ExecIds |-> <<>>]]
    /\ cache = [id \in PaymentIds |-> None]
    /\ creates = <<>>
    /\ flows = [id \in PaymentIds |-> 0]
    /\ now = 1
    /\ ticks = 1
    /\ storage = [global |-> Some(DEFAULT_STATE("m1", TRUE, 0)),
                  lists |-> [m \in MerchantIds |-> IF m = "m1" THEN Some(<<>>) ELSE None]]
    /\ ret = Ret("none", "", "none", Undefined, <<>>, None)
    /\ everPaid = {}
    /\ errors = <<>>
    /\ audits = <<>>
    /\ trackingIds = 0
    /\ mirrors = <<>>
    /\ auth = None
    /\ inbox = <<>>
    /\ state = DEFAULT_STATE("m1", TRUE, 0)
    /\ Loaded("m2", 1)

NextPay ==
    \/ Len(allowedAt.create) < MaxCreates /\ CreatePaymentStart(Num(5, 0), Note(0))
    \/ \E i \in 1..Len(creates), reply \in {"network error", "p1"} : CreatePaymentFinish(i, reply)
    \/ Len(allowedAt.execute["p1"]) < MaxExecutes /\ ExecutePayment("p1")
    \/ ProviderCompleted("p1", "tx1")
    \/ \E isCancelled \in BOOLEAN : ProviderFailed("p1", isCancelled)
    \/ \E i \in 1..Len(mirrors), reply \in MirrorReplies : MirrorSettled(i, reply)
    \/ \E reply \in {None, Some("paid")} : GetPaymentFromServer("p1", reply)
    \/ StorageEvent(OtherTabSnapshot(now, "", FALSE, FALSE))

SpecPay == InitPay /\ [][NextPay]_vars

\* The record at position i stays in place over the step and changes status
StatusChangedAt(i) ==
    /\ Len(state'.payments) = Len(state.payments)
    /\ i \in 1..Len(state.payments)
    /\ state'.payments[i].id = state.payments[i].id
    /\ state'.payments[i].status # state.payments[i].status

\* C2: once this tab has stamped a payment id PAID, executePayment never
\* starts the provider flow for that id again and no completion callback
\* stamps it PAID (paidAt, txid) a second time.
C2_AtMostOneCompletion ==
    [][\A id \in PaymentIds :
          id \in everPaid =>
            /\ ~(ExecutePayment(id) /\ ret'.outcome = "started")
            /\ ~(\E txid \in Txids :
                    /\ ProviderCompleted(id, txid)
                    /\ updatePaymentStatus(state, id, "PAID", txid, now).result)
      ]_vars

C15_ExecuteGuards ==
    [][\A id \in PaymentIds :
          LET payment == getPayment(state, id)
              allowed == RateLimiterCheck(rateAttempts.execute[id],
                                          RATE_LIMITS.EXECUTE_PAYMENT, now).allowed
          IN  /\ canRetryPayment(state, id)
                    <=> (payment # None /\ payment[1].status \in {"FAILED", "CANCELLED"})
              /\ (ExecutePayment(id) /\ allowed) =>
                    IF payment = None \/ payment[1].status = "PAID"
                    THEN /\ ret'.outcome = "failure"
                         /\ ret'.error = IF payment = None THEN "Payment not found"
                                         ELSE "This payment has already been completed"
                         /\ flows' = flows
                         /\ mirrors' = mirrors
                         /\ state' = state
                    ELSE /\ payment[1].status \in {"PENDING", "FAILED", "CANCELLED"}
                         /\ ret'.outcome = "started"
                         /\ flows' = [flows EXCEPT ![id] = @ + 1]
                         /\ state' = state]_vars

\* C15 witness: the payment's first flow was cancelled, executePayment was
\* called again and its flow completed: the record is PAID, no other tab
\* having touched the ledger in between
C15_Witness ==
    /\ \E i \in 1..Len(errors) :
          errors[i].error = "Payment was cancelled" /\ errors[i].details = "p1"
    /\ Len(allowedAt.execute["p1"]) = 2
    /\ Len(state.payments) = 1
    /\ state.payments[1].id = "p1"
    /\ state.payments[1].status = "PAID"
    /\ state.lastUpdated = 0
    /\ ret.op = "paymentCompleted"
    /\ ret.outcome = "onSuccess"

\* C16: the completion callback sets the record PAID, with the txid, in the
\* step that sends the backend PATCH, so before any reply to it; and when the
\* PATCH is over, whether it succeeded, returned an error or threw, the
\* callback leaves the ledger as it was and calls onSuccess.
C16_LedgerBeforeMirror ==
    [][/\ \A id \in PaymentIds, txid \in Txids :
            (ProviderCompleted(id, txid)
             /\ updatePaymentStatus(state, id, "PAID", txid, now).result)
                => /\ \E i \in 1..Len(state'.payments) :
                        /\ state'.payments[i].id = id
                        /\ state'.payments[i].status = "PAID"
                        /\ state'.payments[i].txid = txid
                        /\ state'.payments[i].paidAt = Some(now)
                   /\ Len(mirrors') = Len(mirrors) + 1
                   /\ mirrors'[Len(mirrors')].callback = "success"
                   /\ mirrors'[Len(mirrors')].success
                   /\ ret' = ret
       /\ \A i \in 1..Len(mirrors), reply \in MirrorReplies :
            (MirrorSettled(i, reply) /\ mirrors[i].callback = "success" /\ mirrors[i].success)
                => /\ state' = state
                   /\ ret'.op = "paymentCompleted"
                   /\ ret'.id = mirrors[i].id
                   /\ ret'.outcome = "onSuccess"
                   /\ errors' = errors
      ]_vars

\* C16 witness: a completion callback whose ledger update succeeded has
\* finished: onSuccess was called, the record is PAID with the txid and the
\* completion is the newest audit entry
C16_Witness ==
    /\ ret.op = "paymentCompleted"
    /\ ret.outcome = "onSuccess"
    /\ mirrors = <<>>
    /\ \E i \in 1..Len(state.payments) :
          /\ state.payments[i].id = ret.id
          /\ state.payments[i].status = "PAID"
          /\ state.payments[i].txid = "tx1"
    /\ audits # <<>>
    /\ audits[Len(audits)].operation = "paymentCompleted"
    /\ audits[Len(audits)].details = ret.id

\* C17: when the provider reports completion with a txid and the ledger
\* update succeeds, the caller's onSuccess is called in that same step of the
\* callback, without waiting for the backend PATCH to be over.
C17_OnSuccessImmediately ==
    [][\A id \in PaymentIds, txid \in Txids :
          (ProviderCompleted(id, txid)
           /\ updatePaymentStatus(state, id, "PAID", txid, now).result)
              => /\ ret'.op = "paymentCompleted"
                 /\ ret'.id = id
                 /\ ret'.outcome = "onSuccess"]_vars

\* ------------------------------------------------------------------------
\* SpecRate: one key of the rate limiter, checked as time passes
\* ------------------------------------------------------------------------
\* Clock advances that reach both sides of the window's edge
RateTickSteps == {1, RATE_LIMITS.EXECUTE_PAYMENT.windowMs - 1}

NextRate ==
    \/ Len(allowedAt.execute["p1"]) < MaxRateChecks /\ RateLimiterCall("p1")
    \/ \E d \in RateTickSteps : Tick(d, MaxRateTicks)

SpecRate == Init /\ [][NextRate]_vars

\* C7: a check of a key is allowed exactly when fewer than maxAttempts of the
\* checks allowed before it are inside the window (younger than windowMs): the
\* first N checks inside a window are allowed, the next is denied, and checks
\* are allowed again once the recorded attempts are windowMs old.
C7_SlidingWindow ==
    [][RateLimiterCall("p1") =>
          LET config == RATE_LIMITS.EXECUTE_PAYMENT
              history == allowedAt.execute["p1"]
              inWindow == {i \in 1..Len(history) : history[i] > now - config.windowMs}
          IN  (ret'.outcome = "allowed") <=> (Cardinality(inWindow) < config.maxAttempts)
      ]_vars

\* C7 witness: a check was allowed after maxAttempts earlier checks had been
\* allowed, because attempts among them had left the window and were dropped
C7_Witness ==
    /\ ret.op = "rateLimiter.check"
    /\ ret.outcome = "allowed"
    /\ Len(allowedAt.execute["p1"]) > RATE_LIMITS.EXECUTE_PAYMENT.maxAttempts
    /\ Len(rateAttempts.execute["p1"]) < Len(allowedAt.execute["p1"])

\* ------------------------------------------------------------------------
\* SpecLWW: two snapshots written by other tabs, both newer than this tab's
\* state, reach the storage listener in either order
\* ------------------------------------------------------------------------
SnapshotTimes == 1..MaxSnapshotTime
Snapshots ==
    {OtherTabSnapshot(t, m, master, connected) :
        t \in SnapshotTimes, m \in {"", "m2"}, master \in BOOLEAN, connected \in BOOLEAN}

InitLWW ==
    /\ InitCommon
    /\ \E pi \in BOOLEAN : state = DEFAULT_STATE("m1", pi, 0)
    /\ \E S1 \in Snapshots, S2 \in Snapshots :
          /\ S1.lastUpdated < S2.lastUpdated
          /\ inbox = <<[snapshot |-> S1, delivered |-> FALSE],
                       [snapshot |-> S2, delivered |-> FALSE]>>
    /\ Opened

NextLWW ==
    \E i \in 1..Len(inbox) : DeliverStorageEvent(i)

SpecLWW == InitLWW /\ [][NextLWW]_vars

\* C8: once both notifications have been delivered, in whichever order, the
\* store holds the state of S2, the snapshot with the later lastUpdated.
C8_LastWriterWins ==
    (Len(inbox) = 2 /\ inbox[1].delivered /\ inbox[2].delivered)
        => state = inbox[2].snapshot

\* C8 witness: S2 was delivered first and S1, which differs from it, after
C8_Witness ==
    /\ Len(inbox) = 2 /\ inbox[1].delivered /\ inbox[2].delivered
    /\ storage.global = Some(inbox[1].snapshot)
    /\ inbox[1].snapshot.session # inbox[2].snapshot.session
    /\ state = inbox[2].snapshot

\* ------------------------------------------------------------------------
\* SpecCreate: one createPayment call on any amount and note, under any
\* setting of the wallet status and of the master and domain switches
\* ------------------------------------------------------------------------
AmountInputs ==
    {Num(0, 10), Num(1, 23456780), Num(MAX_AMOUNT, 0),
     Num(0, 0), Num(0, 1), Num(0, 15), Num(1, 23456789), Num(MAX_AMOUNT, 1),
     Neg(1, 0), NaN, Infinity}
NoteInputs == {Note(MAX_NOTE_LENGTH), Note(MAX_NOTE_LENGTH + 1)}

NextCreate ==
    \/ \E amount \in AmountInputs, note \in NoteInputs :
          Len(allowedAt.create) < MaxCreates /\ CreatePaymentStart(amount, note)
    \/ \E i \in 1..Len(creates), reply \in ProviderFailures \cup PaymentIds :
          CreatePaymentFinish(i, reply)
    \/ \E available \in BOOLEAN, connected \in BOOLEAN :
          StoreUpdateWalletStatus(available, connected)
    \/ \E enabled \in BOOLEAN : StoreSetMasterEnabled(enabled)
    \/ \E enabled \in BOOLEAN : StoreSetDomainEnabled("flashpay", enabled)

SpecCreate == InitPiBrowser /\ [][NextCreate]_vars

\* The amounts and notes the interface admits: 0 < a <= 1,000,000 with at
\* most 7 decimals, and at most 500 characters
AdmittedAmount(a) ==
    /\ a.kind = "number"
    /\ a.whole > 0 \/ a.frac8 > 0
    /\ a.whole < 1000000 \/ (a.whole = 1000000 /\ a.frac8 = 0)
    /\ a.frac8 % 10 = 0
AdmittedNote(n) == n.length <= 500

C10_WalletGuardDenies ==
    [][\A a \in AmountInputs, n \in NoteInputs :
          (CreatePaymentStart(a, n) /\ ~checkWallet(state).passed)
              => /\ ret'.outcome = "failure"
                 /\ creates' = creates
                 /\ state' = state]_vars

\* C14: when the guard chain has passed and the request to the provider
\* fails (network error, non-OK status, non-JSON reply), createPayment returns
\* a failure with an error message and a tracking id, and leaves the ledger,
\* the secondary cache and the audit log as they were.
C14_ProviderFailureWritesNothing ==
    [][\A i \in 1..Len(creates), reply \in ProviderFailures :
          CreatePaymentFinish(i, reply)
              => /\ ret'.op = "createPayment"
                 /\ ret'.outcome = "failure"
                 /\ ret'.error # Undefined
                 /\ ret'.payment = None
                 /\ ret'.trackingId # None
                 /\ state' = state
                 /\ cache' = cache
                 /\ audits' = audits
                 /\ storage' = storage]_vars

\* C14 witness: createPayment passed the guards, the backend answered with a
\* non-JSON reply and the call returned that failure with a tracking id; the
\* ledger and the audit log are empty
C14_Witness ==
    /\ ret.op = "createPayment"
    /\ ret.outcome = "failure"
    /\ ret.error = FailureMessage("non-JSON reply")
    /\ ret.trackingId # None
    /\ rateAttempts.create # <<>>
    /\ creates = <<>>
    /\ state.payments = <<>>
    /\ audits = <<>>

\* C18: setDomainEnabled(d, v) called while the master toggle is off returns
\* false and leaves the master and every feature toggle as they were; called
\* while the master toggle is on it returns true and sets toggle d to v,
\* leaving the master toggle on.
C18_MasterGatesToggles ==
    [][\A d \in DOMAIN OPERATIONAL_DOMAINS, v \in BOOLEAN :
          StoreSetDomainEnabled(d, v) =>
              IF ~state.domainState.masterEnabled
              THEN /\ ret'.outcome = "false"
                   /\ state'.domainState = state.domainState
              ELSE /\ ret'.outcome = "true"
                   /\ state'.domainState.domains[d] = v
                   /\ state'.domainState.masterEnabled
                   /\ \A other \in DOMAIN OPERATIONAL_DOMAINS \ {d} :
                         state'.domainState.domains[other] = state.domainState.domains[other]
      ]_vars

\* C18 witness: the master toggle was turned on, the domain suspended and the
\* master turned off again; a call to enable the domain was then refused
C18_Witness ==
    /\ ret.op = "setDomainEnabled"
    /\ ret.outcome = "false"
    /\ ~state.domainState.masterEnabled
    /\ ~state.domainState.domains["flashpay"]

\* C19: in every state in which the master toggle is off, isDomainEnabled(d)
\* is false for every feature d.
C19_OffMeansDisabled ==
    ~state.domainState.masterEnabled
        => \A d \in DOMAIN OPERATIONAL_DOMAINS : ~isDomainEnabled(state, d)

\* ------------------------------------------------------------------------
\* SpecErr: createPayment and executePayment calls that fail in every way
\* they can, in a tab whose rate limiter may have used up the current window
\* ------------------------------------------------------------------------
\* n attempts recorded at time t
Attempts(n, t) == [i \in 1..n |-> t]

\* A tab loaded as in InitPay and then brought, by calls that leave the logs
\* empty, to one of these states: the rate limiter holds, for createPayment
\* and for executePayment of "p1", either no attempt or all the attempts its
\* window allows (rateLimiter.check); the ledger holds the record "p1" or none
\* (createPaymentWithId); the domain "flashpay" is enabled, or the master
\* switch was turned on and the domain off (setMasterEnabled, setDomainEnabled).
InitErr ==
    /\ \E c \in {0, RATE_LIMITS.CREATE_PAYMENT.maxAttempts},
          e \in {0, RATE_LIMITS.EXECUTE_PAYMENT.maxAttempts} :
          /\ rateAttempts = [create |-> Attempts(c, 0),
                             execute |-> [id \in ExecIds |->
                                            IF id = "p1" THEN Attempts(e, 0) ELSE <<>>]]
          /\ allowedAt = rateAttempts
    /\ \E created \in BOOLEAN, enabled \in BOOLEAN :
          LET loaded == DEFAULT_STATE("m1", TRUE, 0)
              switched == [loaded EXCEPT !.domainState.masterEnabled = ~enabled,
                                         !.domainState.domains["flashpay"] = enabled]
          IN  state = IF created
                      THEN createPaymentWithId(switched, "p1", Num(5, 0), Note(0), 0).state
                      ELSE switched
    /\ saveTimeout = Some(DEBOUNCE_MS)
    /\ cache = [id \in PaymentIds |-> None]
    /\ creates = <<>>
    /\ flows = [id \in PaymentIds |-> 0]
    /\ now = 1
    /\ ticks = 1
    /\ storage = [global |-> None, lists |-> [m \in MerchantIds |-> None]]
    /\ ret = Ret("none", "", "none", Undefined, <<>>, None)
    /\ everPaid = {}
    /\ errors = <<>>
    /\ audits = <<>>
    /\ trackingIds = 0
    /\ mirrors = <<>>
    /\ auth = None
    /\ inbox = <<>>
    /\ Opened

\* A valid call, an invalid amount and an over-long note
ErrCreateInputs ==
    {<<Num(5, 0), Note(0)>>, <<Num(0, 0), Note(0)>>, <<Num(5, 0), Note(MAX_NOTE_LENGTH + 1)>>}

NextErr ==
    \/ \E in \in ErrCreateInputs :
          trackingIds < MaxTrackingIds /\ CreatePaymentStart(in[1], in[2])
    \/ \E i \in 1..Len(creates) : CreatePaymentFinish(i, "non-OK status")
    \/ \E id \in {"p1", ""} : trackingIds < MaxTrackingIds /\ ExecutePayment(id)
    \/ ProviderCompleted("p1", "tx1")
    \/ \E isCancelled \in BOOLEAN : ProviderFailed("p1", isCancelled)
    \/ \E i \in 1..Len(mirrors), reply \in MirrorReplies : MirrorSettled(i, reply)

SpecErr == InitErr /\ [][NextErr]_vars

\* A step in which createPayment or executePayment, or a callback of
\* executePayment, reports a failure
ReportsFailure ==
    /\ ret' # ret
    /\ ret'.op \in {"createPayment", "executePayment", "paymentCompleted", "paymentFailed"}
    /\ ret'.outcome \in {"failure", "onError"}

\* C11: a createPayment or executePayment call that fails (rate-limit denial,
\* validation failure, guard denial, missing record, already-PAID conflict,
\* provider failure, cancellation) appends exactly one entry to the error
\* trail in the step that reports the failure, hands the caller the tracking
\* id of that entry, and reports the failure with an error message, as a
\* result or through onError; the error trail grows in no other step.
C11_FailureLoggedOnce ==
    [][/\ ReportsFailure =>
            /\ Len(errors') = Len(errors) + 1
            /\ SubSeq(errors', 1, Len(errors)) = errors
            /\ ret'.trackingId = Some(errors'[Len(errors')].trackingId)
            /\ errors'[Len(errors')].operation \in {"createPayment", "executePayment"}
            /\ \A i \in 1..Len(errors) :
                  errors[i].trackingId # errors'[Len(errors')].trackingId
            /\ ret'.error # Undefined
       /\ errors' # errors => ReportsFailure
      ]_vars

\* C11 witness: executePayment of a PAID record reported the conflict through
\* onError with the tracking id of the entry it appended to the error trail
C11_Witness ==
    /\ ret.op = "executePayment"
    /\ ret.error = "This payment has already been completed"
    /\ errors # <<>>
    /\ errors[Len(errors)].error = "Payment already completed"
    /\ ret.trackingId = Some(errors[Len(errors)].trackingId)

\* C12: every successful sensitive operation appends exactly one entry to the
\* audit log: a createPayment that returns success, a callback of
\* executePayment that has changed a record's status, and a setMasterEnabled
\* or setDomainEnabled call that changes the master or a feature toggle.
C12_AuditedOnce ==
    [][(\/ ret' # ret /\ ret'.op = "createPayment" /\ ret'.outcome = "success"
        \/ \E i \in 1..Len(mirrors), reply \in MirrorReplies :
              MirrorSettled(i, reply) /\ mirrors[i].success
        \/ state'.domainState # state.domainState)
            => /\ Len(audits') = Len(audits) + 1
               /\ SubSeq(audits', 1, Len(audits)) = audits
               /\ audits'[Len(audits')].outcome = "success"]_vars

\* ------------------------------------------------------------------------
\* SpecLog: the error trail and the audit log, appended to when full or one
\* entry short of full
\* ------------------------------------------------------------------------
\* The log n appends leave when the ids first + 1 .. first + n went to it
ErrorsLogged(first, n) ==
    [k \in 1..n |-> OperationError(generateTrackingId(first + k - 1, 0), 0,
                                   "executePayment", "Payment not found", "")]
AuditsLogged(first, n) ==
    [k \in 1..n |-> AuditEntry(generateTrackingId(first + k - 1, 0), 0,
                               "createPayment", "", "success")]

\* A tab in which logError was called n times and then log m times, each log
\* being full or one entry short of full
InitLog ==
    /\ saveTimeout = None
    /\ rateAttempts = [create |-> <<>>, execute |-> [id \in ExecIds |-> <<>>]]
    /\ allowedAt = [create |-> <<>>, execute |-> [id \in ExecIds |-> <<>>]]
    /\ cache = [id \in PaymentIds |-> None]
    /\ creates = <<>>
    /\ flows = [id \in PaymentIds |-> 0]
    /\ now = 1
    /\ ticks = 1
    /\ storage = [global |-> None, lists |-> [m \in MerchantIds |-> None]]
    /\ ret = Ret("none", "", "none", Undefined, <<>>, None)
    /\ everPaid = {}
    /\ mirrors = <<>>
    /\ auth = None
    /\ inbox = <<>>
    /\ state = DEFAULT_STATE("m1", TRUE, 0)
    /\ \E n \in {maxErrors - 1, maxErrors}, m \in {maxEntries - 1, maxEntries} :
          /\ errors = ErrorsLogged(0, n)
          /\ audits = AuditsLogged(n, m)
          /\ trackingIds = n + m
    /\ Opened

NextLog ==
    \/ \E error \in {"Payment not found", "Invalid amount"} :
          /\ trackingIds < maxErrors + maxEntries + MaxLogAppends
          /\ ErrorTrackerLogError("executePayment", error)
    \/ \E outcome \in {"success", "failure"} :
          /\ trackingIds < maxErrors + maxEntries + MaxLogAppends
          /\ AuditLoggerLog("executePayment", outcome)

SpecLog == InitLog /\ [][NextLog]_vars

\* The log after an append: the entries it held, with the newest at the end,
\* less the oldest when it held max entries
AppendedFifo(before, after, max) ==
    /\ after # <<>>
    /\ IF Len(before) < max
       THEN after = Append(before, after[Len(after)])
       ELSE after = Append(Tail(before), after[Len(after)])
    /\ \A i \in 1..Len(before) : before[i].trackingId # after[Len(after)].trackingId

\* C13: the error trail never holds more than 100 entries and the audit log
\* never more than 200; every append puts the new entry last and keeps the
\* entries held before in their order, all of them while the log is not full
\* and all but the oldest when it is full.
C13_BoundedFifo ==
    /\ [](Len(errors) <= 100 /\ Len(audits) <= 200)
    /\ [][/\ \A operation \in {"executePayment"}, error \in {"Payment not found", "Invalid amount"} :
              ErrorTrackerLogError(operation, error) => AppendedFifo(errors, errors', 100)
          /\ \A operation \in {"executePayment"}, outcome \in {"success", "failure"} :
              AuditLoggerLog(operation, outcome) => AppendedFifo(audits, audits', 200)]_vars

\* C13 witness: both logs are full and have each dropped their oldest entries
C13_Witness ==
    /\ Len(errors) = 100
    /\ Len(audits) = 200
    /\ errors[1] \notin {ErrorsLogged(0, 1)[1]}
    /\ audits[1].trackingId.random > maxErrors + 1
    /\ ret.op = "log"
    /\ ret.trackingId = Some(audits[200].trackingId)

\* ------------------------------------------------------------------------
\* SpecRoute: route checks under every setting of the master and domain
\* switches
\* ------------------------------------------------------------------------
CorePaths ==
    {[name |-> "/", chars |-> <<"/">>],
     [name |-> "/create", chars |-> <<"/", "c", "r", "e", "a", "t", "e">>],
     [name |-> "/pay", chars |-> PAY],
     [name |-> "/pay/p1", chars |-> PAY \o <<"/", "p", "1">>],
     [name |-> "/pay/p1/receipt",
      chars |-> PAY \o <<"/", "p", "1", "/", "r", "e", "c", "e", "i", "p", "t">>],
     [name |-> "/payments", chars |-> <<"/", "p", "a", "y", "m", "e", "n", "t", "s">>],
     [name |-> "/profile", chars |-> <<"/", "p", "r", "o", "f", "i", "l", "e">>]}

OtherPaths ==
    {[name |-> "/control-panel", chars |-> CONTROL_PANEL],
     [name |-> "/admin", chars |-> <<"/", "a", "d", "m", "i", "n">>],
     [name |-> "/pa", chars |-> <<"/", "p", "a">>],
     [name |-> "/create/new", chars |-> <<"/", "c", "r", "e", "a", "t", "e", "/", "n", "e", "w">>],
     [name |-> "", chars |-> <<>>]}

NextRoute ==
    \/ \E route \in CorePaths \cup OtherPaths : DomainCanAccessRoute(route)
    \/ \E enabled \in BOOLEAN : StoreSetMasterEnabled(enabled)
    \/ \E d \in DOMAIN OPERATIONAL_DOMAINS, enabled \in BOOLEAN : StoreSetDomainEnabled(d, enabled)

SpecRoute == Init /\ [][NextRoute]_vars

\* C20: canAccessRoute(r) is true for every core route ("/", "/create",
\* "/pay" and the paths under it, "/payments", "/profile") whatever the
\* master toggle and the feature toggles are set to.
C20_CoreRoutesAccessible ==
    [][\A route \in CorePaths :
          /\ canAccessRoute(route.chars)
          /\ DomainCanAccessRoute(route) => ret'.outcome = "true"]_vars

\* C20 witness: with the master toggle off and the domain suspended, the
\* route of a payment page was found accessible
C20_Witness ==
    /\ ret.op = "canAccessRoute"
    /\ ret.id = "/pay/p1"
    /\ ret.outcome = "true"
    /\ ~state.domainState.masterEnabled
    /\ ~state.domainState.domains["flashpay"]

\* ------------------------------------------------------------------------
\* SpecStats: the dashboard statistics over a ledger of two merchants
\* ------------------------------------------------------------------------
\* 5 and 2.5: two amounts whose sums are exact in binary floating point
StatsAmounts == {Num(5, 0), Num(2, 50000000)}

NextStats ==
    \/ \E id \in PaymentIds, amount \in StatsAmounts :
          StoreCreatePaymentWithId(id, amount, Note(0))
    \/ \E id \in PaymentIds, status \in PaymentStatus \ {"PENDING"} :
          StoreUpdatePaymentStatus(id, status, "tx1")
    \/ StoreUpdateSession("m2")
    \/ StoreGetPaymentStats

SpecStats == InitPiBrowser /\ [][NextStats]_vars

\* the positions of the active merchant's records with the given status
OwnWithStatus(status) ==
    {i \in 1..Len(state.payments) :
        /\ state.payments[i].merchantId = CurrentMerchantId(state)
        /\ state.payments[i].status = status}

RECURSIVE PaidTotal(_, _)
\* the whole parts (frac = FALSE) or the 10^-8 parts (frac = TRUE) of the
\* active merchant's PAID amounts among the first n records, added up
PaidTotal(n, frac) ==
    IF n = 0 THEN 0
    ELSE PaidTotal(n - 1, frac)
            + (IF n \in OwnWithStatus("PAID")
               THEN IF frac THEN state.payments[n].amount.frac8
                    ELSE state.payments[n].amount.whole
               ELSE 0)

\* C21: the statistics of the active merchant: the four per-status counts are
\* the numbers of that merchant's records in each status and add up to
\* totalPayments, totalAmount is the sum of the amounts of the PAID records, and
\* conversionRate is paid / total * 100, or 0 when the merchant has no record.
C21_StatsAddUp ==
    LET s == getPaymentStats(state)
        n == Len(state.payments)
    IN  /\ s.paidPayments = Cardinality(OwnWithStatus("PAID"))
        /\ s.pendingPayments = Cardinality(OwnWithStatus("PENDING"))
        /\ s.failedPayments = Cardinality(OwnWithStatus("FAILED"))
        /\ s.cancelledPayments = Cardinality(OwnWithStatus("CANCELLED"))
        /\ s.totalPayments = s.paidPayments + s.pendingPayments
                                + s.failedPayments + s.cancelledPayments
        /\ s.totalAmount = Num(PaidTotal(n, FALSE) + (PaidTotal(n, TRUE) \div 100000000),
                               PaidTotal(n, TRUE) % 100000000)
        /\ IF s.totalPayments = 0
           THEN s.conversionRate.num = 0 /\ s.conversionRate.den # 0
           ELSE /\ s.conversionRate.den # 0
                /\ s.conversionRate.num * s.totalPayments
                      = s.paidPayments * 100 * s.conversionRate.den

\* C21 witness: getPaymentStats answered 1 paid payment, total 5 and a rate of
\* 100 for a merchant whose one payment of 5 is PAID, next to a record of
\* another merchant
C21_Witness ==
    /\ ret.op = "getPaymentStats"
    /\ ret.payment = Some(getPaymentStats(state))
    /\ Len(state.payments) = 2
    /\ ret.payment[1].totalPayments = 1
    /\ ret.payment[1].paidPayments = 1
    /\ ret.payment[1].totalAmount = Num(5, 0)
    /\ ret.payment[1].conversionRate = Ratio(100, 1)

\* ------------------------------------------------------------------------
\* SpecLedger: the ledger of one tab opened on empty storage next to another
\* one: records created and cleared under two merchants, resets, and the
\* other tab's writes
\* ------------------------------------------------------------------------
NextLedger ==
    \/ StoreCreatePaymentWithId("p1", Num(5, 0), Note(0))
    \/ StoreClearAllPayments
    \/ StoreUpdateSession("m2")
    \/ StoreResetState
    \/ Tick(1, MaxTabTicks)
    \/ StorageEvent(OtherTabOpened("m1", now))

SpecLedger == InitPiBrowser /\ [][NextLedger]_vars

\* what identifies a record of the ledger: its id, its merchant and its creation time
RecordKeys(st) ==
    {[id |-> st.payments[i].id, merchantId |-> st.payments[i].merchantId,
      createdAt |-> st.payments[i].createdAt] : i \in 1..Len(st.payments)}

\* C22: a record leaves the in-memory ledger only through clearAllPayments,
\* which removes the active merchant's records and no others; every other
\* step, the storage listener's included, keeps every record.
C22_OnlyBulkClearing ==
    [][IF StoreClearAllPayments
       THEN RecordKeys(state') =
               {k \in RecordKeys(state) : k.merchantId # CurrentMerchantId(state)}
       ELSE RecordKeys(state) \subseteq RecordKeys(state')]_vars

\* ------------------------------------------------------------------------
\* SpecMerchant: the merchant context of one tab opened on empty storage next
\* to another one, under session and merchant updates, merchant setup, resets,
\* the debounced write, the other tab's writes and reloads
\* ------------------------------------------------------------------------
NextMerchant ==
    \/ StoreUpdateSession("m2")
    \/ \E updates \in {[isSetupComplete |-> TRUE], [merchantId |-> "m2"]} :
          StoreUpdateMerchantState(updates)
    \/ StoreCompleteMerchantSetup
    \/ StoreResetState
    \/ Tick(DEBOUNCE_MS, MaxTabTicks)
    \/ Flush("both")
    \/ \E generatedId \in MerchantIds : StorageEvent(OtherTabOpened(generatedId, now))
    \/ \E generated \in MerchantIds, minted \in MerchantIds :
          Reload(generated, minted, TRUE, "ok", "ok")

SpecMerchant == InitPiBrowser /\ [][NextMerchant]_vars

\* C23: merchant.merchantId never changes: no store call, cross-tab update
\* or reload gives the store another merchant id than the one it holds.
C23_MerchantIdImmutable ==
    [][state'.merchant.merchantId = state.merchant.merchantId]_vars

\* C24: lastUpdated is a monotonic version: no step of the tab lowers the
\* store's lastUpdated, and no write of the global snapshot carries a
\* lastUpdated lower than the snapshot it replaces.
C24_LastUpdatedMonotonic ==
    [][/\ state'.lastUpdated >= state.lastUpdated
       /\ (storage.global # None /\ storage'.global # None)
             => storage'.global[1].lastUpdated >= storage.global[1].lastUpdated]_vars

\* ------------------------------------------------------------------------
\* SpecSync: a tab with subscribers that mutates its session and writes its
\* state, while snapshots written by another tab, older than, as old as or
\* newer than its state, reach its storage listener
\* ------------------------------------------------------------------------
\* the lastUpdated of the snapshots that arrive: the load time, the state's
\* own lastUpdated and the current time
SyncTimes == {0, state.lastUpdated, now}

NextSync ==
    \/ \E topic \in {"session", "all"} : StoreSubscribe(topic, "l1")
    \/ calls["l1"] < MaxNotified /\ StoreUpdateSession("m2")
    \/ Tick(DEBOUNCE_MS, MaxTabTicks)
    \/ Flush("both")
    \/ \E t \in SyncTimes :
          calls["l1"] < MaxNotified /\ StorageEvent(OtherTabOpened("m2", t))

SpecSync == InitPiBrowser /\ [][NextSync]_vars

\* C25: a storage notification whose snapshot has a lastUpdated less than or
\* equal to the state's is discarded: the whole state stays as it was and no
\* listener is called; a snapshot with a strictly greater lastUpdated becomes
\* the state.
C25_StaleDiscarded ==
    [][\A t \in SyncTimes :
          LET snapshot == OtherTabOpened("m2", t)
          IN  StorageEvent(snapshot) =>
                IF snapshot.lastUpdated <= state.lastUpdated
                THEN state' = state /\ calls' = calls
                ELSE state' = snapshot]_vars

\* C25 witness: the tab of merchant "m1", with a listener subscribed to "all",
\* has changed its session and written its state; the other tab's snapshot
\* with that same lastUpdated arrived and the state was kept
C25_Witness ==
    /\ storage.global # None
    /\ storage.global[1].merchant.merchantId = "m2"
    /\ state.merchant.merchantId = "m1"
    /\ state.session.currentMerchantId = "m2"
    /\ state.lastUpdated > 0
    /\ storage.global[1].lastUpdated = state.lastUpdated
    /\ "l1" \in listeners["all"]

\* ------------------------------------------------------------------------
\* SpecDebounce: records created half a debounce window or more apart, and
\* the debounced write
\* ------------------------------------------------------------------------
NextDebounce ==
    \/ \E id \in PaymentIds : StoreCreatePaymentWithId(id, Num(5, 0), Note(0))
    \/ Tick(DEBOUNCE_MS \div 2, MaxDebounceTicks)
    \/ Flush("both")

SpecDebounce == InitPiBrowser /\ [][NextDebounce]_vars

\* the time of the latest createPaymentWithId call: the latest createdAt
LastMutation ==
    CHOOSE t \in {state.payments[i].createdAt : i \in 1..Len(state.payments)} :
        \A i \in 1..Len(state.payments) : state.payments[i].createdAt <= t

\* localStorage holds the state as it is: the global snapshot and the list
Saved(st, stg) ==
    /\ stg.global = Some([st EXCEPT !.payments = <<>>])
    /\ stg.lists[st.merchant.merchantId] = Some(st.payments)

NextTiers ==
    \/ \E id \in PaymentIds : StoreCreatePaymentWithId(id, Num(5, 0), Note(0))
    \/ StoreUpdateSession("m2")
    \/ StoreUpdateMerchantState([merchantId |-> "m2"])
    \/ Tick(DEBOUNCE_MS, MaxTabTicks)
    \/ \E written \in WriteOutcomes : Flush(written)

SpecTiers == InitPiBrowser /\ [][NextTiers]_vars

\* every record of a stored list carries the merchant id of its key
ListsKeyed(stg) ==
    \A m \in DOMAIN stg.lists :
        stg.lists[m] # None =>
            \A i \in 1..Len(stg.lists[m][1]) : stg.lists[m][1][i].merchantId = m

BootIds == {"m3", "m4"}

NextBoot ==
    \/ \E id \in PaymentIds : StoreCreatePaymentWithId(id, Num(5, 0), Note(0))
    \/ StoreUpdatePaymentStatus("p1", "PAID", "tx1")
    \/ StoreCompleteMerchantSetup
    \/ StoreUpdateMerchantState([merchantId |-> ""])
    \/ Tick(DEBOUNCE_MS, MaxTabTicks)
    \/ Flush("both")
    \/ \E minted \in BootIds : Reload("m3", minted, TRUE, "ok", "ok")

SpecBoot == InitPiBrowser /\ [][NextBoot]_vars

\* id, amount, status and txid of each record, in order
RecordFields(payments) ==
    [i \in 1..Len(payments) |->
        [id |-> payments[i].id, amount |-> payments[i].amount,
         status |-> payments[i].status, txid |-> payments[i].txid]]

\* the stored list of merchant m, empty when there is none
StoredList(m) ==
    IF m \in DOMAIN storage.lists /\ storage.lists[m] # None
    THEN storage.lists[m][1] ELSE <<>>

\* C28: a tab loaded from a written snapshot has the merchant id of the
\* snapshot and the records of the list stored for that merchant; when the
\* snapshot has no merchant id, the tab has a newly generated one and its
\* session's currentMerchantId is that id.
C28_Rehydration ==
    [][\A minted \in BootIds :
        (Reload("m3", minted, TRUE, "ok", "ok") /\ storage.global # None) =>
            LET snapshot == storage.global[1]
            IN  IF Falsy(snapshot.merchant.merchantId)
                THEN /\ state'.merchant.merchantId = minted
                     /\ state'.merchant.merchantId \notin StoredMerchantIds(storage)
                     /\ state'.session.currentMerchantId = state'.merchant.merchantId
                ELSE /\ state'.merchant.merchantId = snapshot.merchant.merchantId
                     /\ RecordFields(state'.payments) =
                            RecordFields(StoredList(snapshot.merchant.merchantId))]_vars

\* ------------------------------------------------------------------------
\* SpecFail: page loads whose reads fail or find a damaged snapshot, and
\* writes that fail
\* ------------------------------------------------------------------------
\* a section the stored JSON does not have: undefined after JSON.parse
MissingSection == [undefined |-> TRUE]

\* What an earlier visit left under the global key: a whole snapshot, or one
\* without its domainState section (JSON.parse accepts both, and the cast to
\* UnifiedState checks nothing)
StoredSnapshots ==
    {DEFAULT_STATE("m1", TRUE, 0),
     [DEFAULT_STATE("m1", TRUE, 0) EXCEPT !.domainState = MissingSection]}

\* The tab was loaded at time 1 over that storage, the read succeeding,
\* throwing, or finding text that is not JSON
InitFail ==
    /\ saveTimeout = None
    /\ rateAttempts = [create |-> <<>>, execute |-> [id \in ExecIds |-> <<>>]]
    /\ allowedAt = [create |-> <<>>, execute |-> [id \in ExecIds |-> <<>>]]
    /\ cache = [id \in PaymentIds |-> None]
    /\ creates = <<>>
    /\ flows = [id \in PaymentIds |-> 0]
    /\ now = 1
    /\ ticks = 0
    /\ ret = Ret("constructor", "", "initialized", Undefined, <<>>, None)
    /\ everPaid = {}
    /\ errors = <<>>
    /\ audits = <<>>
    /\ trackingIds = 0
    /\ mirrors = <<>>
    /\ auth = None
    /\ inbox = <<>>
    /\ \E snapshot \in StoredSnapshots, read \in ReadOutcomes :
          /\ storage = [global |-> Some(snapshot),
                        lists |-> [m \in MerchantIds |->
                                      IF m = "m1" THEN Some(<<>>) ELSE None]]
          /\ LET l == loadFromStorage(storage, DEFAULT_STATE("m2", TRUE, 1), "m2",
                                      read, "ok")
             IN  /\ state = l.state
                 /\ IF l.parsed THEN Loaded("m2", 1) ELSE Opened

NextFail ==
    \/ StoreCreatePaymentWithId("p1", Num(5, 0), Note(0))
    \/ StoreIsMasterEnabled
    \/ Tick(DEBOUNCE_MS, MaxTabTicks)
    \/ \E written \in WriteOutcomes : Flush(written)
    \/ \E minted \in BootIds, read \in ReadOutcomes, listRead \in {"ok", "throws"} :
            Reload("m3", minted, TRUE, read, listRead)

SpecFail == InitFail /\ [][NextFail]_vars

\* the snapshot has every section DEFAULT_STATE has
WholeSnapshot(snapshot) ==
    \A section \in Sections :
        DOMAIN snapshot[section] = DOMAIN DEFAULT_STATE("m1", TRUE, 0)[section]

\* C29: a page load whose read of localStorage throws, or that finds a
\* snapshot that is not JSON or not a whole state, leaves the store with
\* DEFAULT_STATE and the constructor returns; a write that fails leaves every
\* section of the state as it was (lastUpdated carries the time of the
\* attempt) and the timer callback returns; no later store call throws.
C29_FailuresContained ==
    /\ [][\A minted \in BootIds, read \in ReadOutcomes, listRead \in {"ok", "throws"} :
            (/\ Reload("m3", minted, TRUE, read, listRead)
             /\ \/ read # "ok"
                \/ storage.global # None /\ ~WholeSnapshot(storage.global[1])) =>
                /\ state' = DEFAULT_STATE("m3", TRUE, now)
                /\ ret'.outcome = "initialized"]_vars
    /\ [][\A written \in {"global", "none"} :
            Flush(written) =>
                /\ state' = [state EXCEPT !.lastUpdated = now]
                /\ saveTimeout' = None
                /\ ret' = ret]_vars
    /\ [](ret.error # "TypeError")

\* ------------------------------------------------------------------------
\* SpecSub: listeners that subscribe and unsubscribe around store calls
\* ------------------------------------------------------------------------
SubTopics == {"payments", "session", "all"}

\* No listener is called more than MaxNotified times.  updateSession and
\* completeMerchantSetup also store the current time (lastActivity,
\* connectedAt), which the state here does not carry: they are called where
\* they change a field it does carry.
NextSub ==
    \/ \E topic \in SubTopics, l \in ListenerIds : StoreSubscribe(topic, l)
    \/ \E topic \in SubTopics, l \in ListenerIds :
            l \in listeners[topic] /\ StoreUnsubscribe(topic, l)
    \/ /\ \A l \in ListenerIds : calls[l] < MaxNotified
       /\ \/ StoreCreatePaymentWithId("p1", Num(5, 0), Note(0))
          \/ StoreUpdatePaymentStatus("p1", "PAID", "tx1")
          \/ StoreSetDomainEnabled("flashpay", FALSE)
          \/ state.session.currentMerchantId # "m2" /\ StoreUpdateSession("m2")
          \/ ~state.merchant.isSetupComplete /\ StoreCompleteMerchantSetup

SpecSub == InitPiBrowser /\ [][NextSub]_vars

\* C30: a store call that changes sections of the state calls exactly once
\* every listener subscribed to the topic of a changed section or to "all",
\* and no other listener; a call that changes nothing calls no listener; the
\* function subscribe returned takes the listener out of its topic.
C30_Subscriptions ==
    /\ [][LET changed == {s \in Sections : state'[s] # state[s]}
              topics == IF changed = {} THEN {} ELSE changed \cup {"all"}
          IN  \A l \in ListenerIds :
                calls'[l] = calls[l] + (IF \E t \in topics : l \in listeners[t]
                                        THEN 1 ELSE 0)]_vars
    /\ [][\A topic \in SubTopics, l \in ListenerIds :
            StoreUnsubscribe(topic, l) => l \notin listeners'[topic]]_vars

\* ------------------------------------------------------------------------
\* Frame of updatePaymentStatus, checked in Spec
\* ------------------------------------------------------------------------
\* C31: an updatePaymentStatus(id, s, txid) that returns true leaves the
\* ledger's length and every record but the first with that id as they were,
\* and in that record sets the status to s, keeps id, amount, note, merchantId
\* and createdAt, and keeps paidAt and txid unless s is PAID.
C31_UpdateFrame ==
    [][\A id \in PaymentIds, s \in PaymentStatus :
        (StoreUpdatePaymentStatus(id, s, "tx1") /\ ret'.outcome = "true") =>
            LET i == FindIndex(state.payments, id)
                old == state.payments[i]
                new == state'.payments[i]
            IN  /\ Len(state'.payments) = Len(state.payments)
                /\ \A j \in 1..Len(state.payments) :
                      j # i => state'.payments[j] = state.payments[j]
                /\ new.status = s
                /\ new.id = old.id
                /\ new.amount = old.amount
                /\ new.note = old.note
                /\ new.merchantId = old.merchantId
                /\ new.createdAt = old.createdAt
                /\ s # "PAID" => (new.paidAt = old.paidAt /\ new.txid = old.txid)]_vars

\* C31 witness: of two records the older one was set to FAILED by a call that
\* returned true; it carries no paidAt and no txid
C31_Witness ==
    /\ Len(state.payments) = 2
    /\ ret.op = "updatePaymentStatus"
    /\ ret.outcome = "true"
    /\ ret.id = state.payments[2].id
    /\ state.payments[2].status = "FAILED"
    /\ state.payments[2].paidAt = None
    /\ state.payments[2].txid = Undefined
    /\ state.payments[1].status = "PENDING"

\* ------------------------------------------------------------------------
\* Provider authentication (pi-sdk.ts)
\* ------------------------------------------------------------------------
\* A message is [name, chars]: the text, and the sequence of its characters
Includes(chars, part) ==
    \E i \in 1..(Len(chars) - Len(part) + 1) : SubSeq(chars, i, i + Len(part) - 1) = part

TIMEOUT == <<"t", "i", "m", "e", "o", "u", "t">>

\* new Error("Authentication timeout - Pi wallet did not respond after 30 seconds")
AuthTimeoutError ==
    [isError |-> TRUE,
     name |-> "Authentication timeout - Pi wallet did not respond after 30 seconds",
     chars |-> <<"A", "u", "t", "h", "e", "n", "t", "i", "c", "a", "t", "i", "o", "n",
                " ", "t", "i", "m", "e", "o", "u", "t", " ", "-", " ", "P", "i", " ",
                "w", "a", "l", "l", "e", "t", " ", "d", "i", "d", " ", "n", "o", "t",
                " ", "r", "e", "s", "p", "o", "n", "d", " ", "a", "f", "t", "e", "r",
                " ", "3", "0", " ", "s", "e", "c", "o", "n", "d", "s">>]

\* What Pi.authenticate can reject with: Error objects of the provider, and a
\* value that is not an Error
ProviderRejections ==
    {[isError |-> TRUE, name |-> "User cancelled",
      chars |-> <<"U", "s", "e", "r", " ", "c", "a", "n", "c", "e", "l", "l", "e", "d">>],
     [isError |-> TRUE, name |-> "timeout of 10000ms exceeded",
      chars |-> <<"t", "i", "m", "e", "o", "u", "t", " ", "o", "f", " ", "1", "0", "0",
                 "0", "0", "m", "s", " ", "e", "x", "c", "e", "e", "d", "e", "d">>],
     [isError |-> FALSE, name |-> "timeout",
      chars |-> TIMEOUT]}

\* What Pi.authenticate can resolve with
ProviderResults ==
    {[present |-> FALSE, user |-> FALSE, username |-> FALSE, scopes |-> "none",
      accessToken |-> FALSE],
     [present |-> TRUE, user |-> FALSE, username |-> FALSE, scopes |-> "none",
      accessToken |-> TRUE],
     [present |-> TRUE, user |-> TRUE, username |-> FALSE, scopes |-> "none",
      accessToken |-> FALSE],
     [present |-> TRUE, user |-> TRUE, username |-> TRUE, scopes |-> "none",
      accessToken |-> TRUE],
     [present |-> TRUE, user |-> TRUE, username |-> TRUE, scopes |-> "username",
      accessToken |-> TRUE],
     [present |-> TRUE, user |-> TRUE, username |-> TRUE, scopes |-> "payments",
      accessToken |-> TRUE]}

AuthCallers == {"authenticateMerchant", "authenticateCustomer"}

AUTH_TIMEOUT_MS == 30000

\* the message the catch block returns when isTimeout
TimeoutMessage(who) ==
    IF who = "authenticateMerchant"
    THEN "Pi wallet not responding. Check: 1) App is approved in Developer Portal, 2) Scopes (username, payments) are enabled, 3) App Domain is set to flashpay.pi"
    ELSE "Pi wallet not responding. Please check that you're using Pi Browser and the app is approved in the Developer Portal."

\* The catch block: what the call returns for a rejection of the race
authCatch(who, error) ==
    IF error.isError /\ Includes(error.chars, TIMEOUT) THEN TimeoutMessage(who)
    ELSE IF error.isError THEN error.name
    ELSE "Authentication failed"

\* What the call returns for a result of the race: "" stands for success
authResultError(who, result) ==
    IF who = "authenticateMerchant"
    THEN IF result.present /\ result.user /\ result.username THEN ""
         ELSE "Authentication failed - no user data received"
    ELSE IF ~result.present THEN "Authentication failed - please try again"
         ELSE IF result.user /\ result.scopes # "none"
         THEN IF result.scopes = "payments" THEN ""
              ELSE "The 'payments' scope is required. Please grant permission to make payments."
         ELSE IF result.accessToken /\ result.user THEN ""
         ELSE "Authentication completed but scope information is missing. Please try again."

\* The call up to its await: without window.Pi, or before the SDK is
\* initialized, it returns at once; otherwise Pi.authenticate is called and
\* the 30-second timer set.  The clock can still reach the deadline.
AuthenticateStart(who, piPresent, maxTicks) ==
    LET error == IF ~piPresent THEN "Pi SDK not available. Please open in Pi Browser."
                 ELSE IF ~state.wallet.isInitialized
                 THEN "Pi SDK not initialized. Please refresh and try again."
                 ELSE ""
    IN  /\ auth = None
        /\ ticks + 2 <= maxTicks
        /\ auth' = IF error = "" THEN Some([who |-> who, deadline |-> now + AUTH_TIMEOUT_MS])
                   ELSE None
        /\ ret' = IF error = "" THEN Ret(who, "", "pending", Undefined, <<>>, None)
                  ELSE Ret(who, "", "failure", error, <<>>, None)
        /\ UNCHANGED <<state, saveTimeout, rateAttempts, cache, creates, flows, now, ticks,
                       storage, everPaid, allowedAt, inbox, errors, audits, trackingIds,
                       mirrors, defaults, shared, alias, listeners, calls>>

\* Pi.authenticate resolves before the timer has fired: completeMerchantSetup
\* (merchant only) and updateWalletStatus on success
AuthenticateResolved(result) ==
    LET who == auth[1].who
        error == authResultError(who, result)
        merchant == who = "authenticateMerchant"
        updates == IF merchant THEN [isConnected |-> TRUE, isInitialized |-> TRUE]
                   ELSE [isConnected |-> TRUE, isInitialized |-> TRUE,
                         isPiSDKAvailable |-> TRUE]
    IN  /\ auth # None
        /\ auth' = None
        /\ IF error # ""
           THEN /\ ret' = Ret(who, "", "failure", error, <<>>, None)
                /\ UNCHANGED <<state, saveTimeout, defaults, shared, alias, calls>>
           ELSE /\ ret' = Ret(who, "", "success", Undefined, <<>>, None)
                /\ state' = [state EXCEPT
                      !.merchant.isSetupComplete = IF merchant THEN TRUE ELSE @,
                      !.session.currentMerchantId =
                          IF merchant THEN state.merchant.merchantId ELSE @,
                      !.wallet = Spread(@, updates)]
                /\ saveTimeout' = Armed
                /\ InPlace("session")
                /\ calls' = [l \in ListenerIds |->
                                IF merchant
                                THEN notify("merchant")[l] + notify("wallet")[l] - calls[l]
                                ELSE notify("wallet")[l]]
        /\ UNCHANGED <<rateAttempts, cache, creates, flows, now, ticks, storage, everPaid,
                       allowedAt, inbox, errors, audits, trackingIds, mirrors, listeners>>

\* Pi.authenticate rejects before the timer has fired
AuthenticateRejected(error) ==
    /\ auth # None
    /\ auth' = None
    /\ ret' = Ret(auth[1].who, "", "failure", authCatch(auth[1].who, error), <<>>, None)
    /\ UNCHANGED <<state, saveTimeout, rateAttempts, cache, creates, flows, now, ticks,
                   storage, everPaid, allowedAt, inbox, errors, audits, trackingIds,
                   mirrors, defaults, shared, alias, listeners, calls>>

\* The 30-second timer fires first: the race rejects with AuthTimeoutError
AuthenticateTimeout ==
    /\ auth # None
    /\ now >= auth[1].deadline
    /\ auth' = None
    /\ ret' = Ret(auth[1].who, "", "failure", authCatch(auth[1].who, AuthTimeoutError),
                  <<>>, None)
    /\ UNCHANGED <<state, saveTimeout, rateAttempts, cache, creates, flows, now, ticks,
                   storage, everPaid, allowedAt, inbox, errors, audits, trackingIds,
                   mirrors, defaults, shared, alias, listeners, calls>>

\* initializePiSDK(): Pi.init succeeded or threw
InitializePiSDK(succeeded) ==
    /\ state' = [state EXCEPT !.wallet = Spread(@, [isPiSDKAvailable |-> TRUE,
                                                     isInitialized |-> succeeded,
                                                     isConnected |-> FALSE])]
    /\ saveTimeout' = Armed
    /\ Reassigned("wallet")
    /\ calls' = notify("wallet")
    /\ UNCHANGED <<rateAttempts, cache, creates, flows, now, ticks, storage, ret, everPaid,
                   allowedAt, inbox, errors, audits, trackingIds, mirrors, listeners, auth>>

\* ------------------------------------------------------------------------
\* SpecAuth: authentication calls, the provider's answers and the timeout
\* ------------------------------------------------------------------------
NextAuth ==
    \/ \E succeeded \in BOOLEAN : InitializePiSDK(succeeded)
    \/ \E who \in AuthCallers, piPresent \in BOOLEAN :
            AuthenticateStart(who, piPresent, MaxAuthTicks)
    \/ \E result \in ProviderResults : AuthenticateResolved(result)
    \/ \E error \in ProviderRejections : AuthenticateRejected(error)
    \/ AuthenticateTimeout
    \/ Tick(AUTH_TIMEOUT_MS \div 2, MaxAuthTicks)

\* The clock advances and a timer that is due fires
SpecAuth ==
    /\ InitPiBrowser
    /\ [][NextAuth]_vars
    /\ WF_vars(Tick(AUTH_TIMEOUT_MS \div 2, MaxAuthTicks))
    /\ WF_vars(AuthenticateTimeout)

\* C32: when the 30-second timer fires before the provider has answered, the
\* call returns a failure with the timeout message of its caller and the
\* state is as it was; no answer of the provider makes the call return that
\* message; and every call in flight ends.
C32_AuthTimeout ==
    /\ [][AuthenticateTimeout =>
            /\ now >= auth[1].deadline
            /\ ret'.outcome = "failure"
            /\ ret'.error = TimeoutMessage(auth[1].who)
            /\ state' = state
            /\ defaults' = defaults]_vars
    /\ [][(\/ \E result \in ProviderResults : AuthenticateResolved(result)
           \/ \E error \in ProviderRejections : AuthenticateRejected(error)) =>
            ret'.error # TimeoutMessage(auth[1].who)]_vars
    /\ (auth # None) ~> (auth = None)

\* ------------------------------------------------------------------------
\* SpecEnd: provider flows of one payment that end in a completion, a
\* cancellation or an error
\* ------------------------------------------------------------------------
\* error.message of the Error the provider hands to onError
ProviderMessages == {"", "Insufficient balance"}

NextEnd ==
    \/ StoreCreatePaymentWithId("p1", Num(5, 0), Note(0))
    \/ Len(allowedAt.execute["p1"]) < MaxExecutes /\ ExecutePayment("p1")
    \/ ProviderCompleted("p1", "tx1")
    \/ ProviderFailed("p1", TRUE)
    \/ \E message \in ProviderMessages : ProviderEnded("p1", FALSE, message)
    \/ \E i \in 1..Len(mirrors), reply \in MirrorReplies : MirrorSettled(i, reply)

SpecEnd == InitPay /\ [][NextEnd]_vars

\* the status the error callback leaves in a record the active merchant has
StatusAfterEnd(isCancelled) ==
    LET found == getPayment(state, "p1")
    IN  found # None =>
            state'.payments[FindIndex(state.payments, "p1")].status =
                IF found[1].status = "PAID" THEN "PAID"
                ELSE IF isCancelled THEN "CANCELLED" ELSE "FAILED"

\* once the PATCH is over the error callback calls onError with the message
\* it was given and the tracking id of the error entry
ErrorForwarded ==
    \A i \in 1..Len(mirrors), reply \in MirrorReplies :
        (MirrorSettled(i, reply) /\ mirrors[i].callback = "error") =>
            /\ ret'.outcome = "onError"
            /\ ret'.error = mirrors[i].error
            /\ ret'.trackingId # None

\* C33: a cancellation sets the record CANCELLED and a provider error sets it
\* FAILED, a PAID record staying PAID; onError receives, with a tracking id,
\* "Payment was cancelled" for a cancellation, the provider's message for an
\* error, and "Payment failed" when that message is empty.
C33_EndOfFlow ==
    [][/\ ProviderFailed("p1", TRUE) =>
            /\ StatusAfterEnd(TRUE)
            /\ mirrors'[Len(mirrors')].error = "Payment was cancelled"
       /\ \A message \in ProviderMessages :
            ProviderEnded("p1", FALSE, message) =>
                /\ StatusAfterEnd(FALSE)
                /\ mirrors'[Len(mirrors')].error =
                        IF message = "" THEN "Payment failed" ELSE message
       /\ ErrorForwarded]_vars

\* C33 as stated: onError receives the provider's message as it is
C33_MessageUnchanged ==
    [][/\ ProviderFailed("p1", TRUE) => StatusAfterEnd(TRUE)
       /\ \A message \in ProviderMessages :
            ProviderEnded("p1", FALSE, message) =>
                /\ StatusAfterEnd(FALSE)
                /\ mirrors'[Len(mirrors')].error = message
       /\ ErrorForwarded]_vars

\* C33 witness: the provider's own message reached onError with a tracking id
\* and the record is FAILED
C33_Witness ==
    /\ ret.op = "paymentFailed"
    /\ ret.outcome = "onError"
    /\ ret.error = "Insufficient balance"
    /\ ret.trackingId # None
    /\ Len(state.payments) = 1
    /\ state.payments[1].status = "FAILED"

\* ------------------------------------------------------------------------
\* SpecLate: provider callbacks that fire after the record has been cleared,
\* replaced by another tab's snapshot, or left behind by a merchant switch
\* ------------------------------------------------------------------------
NextLate ==
    \/ StoreCreatePaymentWithId("p1", Num(5, 0), Note(0))
    \/ Len(allowedAt.execute["p1"]) < MaxExecutes /\ ExecutePayment("p1")
    \/ StoreClearAllPayments
    \/ StoreUpdateSession("m2")
    \/ StorageEvent(OtherTabSnapshot(now, "", FALSE, FALSE))
    \/ ProviderCompleted("p1", "tx1")
    \/ \E isCancelled \in BOOLEAN : ProviderFailed("p1", isCancelled)
    \/ \E i \in 1..Len(mirrors) : MirrorSettled(i, "ok")

SpecLate == InitPay /\ [][NextLate]_vars

\* C34: a completion, cancellation or error callback that fires when
\* getPayment finds no record of that id for the active merchant leaves the
\* ledger as it was, and such a completion callback ends by calling onError,
\* not onSuccess.
C34_LateCallbacks ==
    [][/\ (/\ getPayment(state, "p1") = None
           /\ \/ ProviderCompleted("p1", "tx1")
              \/ \E isCancelled \in BOOLEAN : ProviderFailed("p1", isCancelled)) =>
            /\ state' = state
            /\ ~mirrors'[Len(mirrors')].success
       /\ \A i \in 1..Len(mirrors) :
            (MirrorSettled(i, "ok") /\ mirrors[i].callback = "success"
                /\ ~mirrors[i].success) =>
                /\ ret'.outcome = "onError"
                /\ ret'.op = "paymentCompleted"]_vars

\* C34 witness: the record was started under merchant "m1", the session moved
\* to "m2", and the completion that fired then was reported through onError
\* with the record still PENDING
C34_Witness ==
    /\ ret.op = "paymentCompleted"
    /\ ret.outcome = "onError"
    /\ state.session.currentMerchantId = "m2"
    /\ Len(state.payments) = 1
    /\ state.payments[1].merchantId = "m1"
    /\ state.payments[1].status = "PENDING"
    /\ everPaid = {}


\* ------------------------------------------------------------------------
\* The timestamps the rate limiter holds for a key (checked in SpecRate)
\* ------------------------------------------------------------------------
\* The timestamps of the key that are still inside the window at the check
InWindow(id) ==
    SelectSeqSince(rateAttempts.execute[id], now - RATE_LIMITS.EXECUTE_PAYMENT.windowMs)

\* C35: a key checked with a fixed config never holds more than maxAttempts
\* timestamps: an allowed check adds exactly one, the time of the check, to
\* those still inside the window; a denied check adds none and leaves the held
\* timestamps as they were; the returned remainingAttempts is maxAttempts
\* minus the number of timestamps held after the check.
C35_HeldTimestamps ==
    /\ [](Len(rateAttempts.execute["p1"]) <= RATE_LIMITS.EXECUTE_PAYMENT.maxAttempts)
    /\ [][RateLimiterCall("p1") =>
             LET config == RATE_LIMITS.EXECUTE_PAYMENT
                 returned == RateLimiterCheck(rateAttempts.execute["p1"], config, now)
                 held == rateAttempts'.execute["p1"]
             IN  /\ (ret'.outcome = "allowed") => held = Append(InWindow("p1"), now)
                 /\ (ret'.outcome = "denied") => held = rateAttempts.execute["p1"]
                 /\ ret'.outcome \in {"allowed", "denied"}
                 /\ returned.remainingAttempts = config.maxAttempts - Len(held)
         ]_vars

\* C35 witness: a check was denied, later than the checks that were allowed,
\* while maxAttempts timestamps were held, and the same timestamps are held
C35_Witness ==
    /\ ret.op = "rateLimiter.check"
    /\ ret.outcome = "denied"
    /\ Len(rateAttempts.execute["p1"]) = RATE_LIMITS.EXECUTE_PAYMENT.maxAttempts
    /\ rateAttempts.execute["p1"] = allowedAt.execute["p1"]
    /\ \A i \in 1..Len(rateAttempts.execute["p1"]) : rateAttempts.execute["p1"][i] < now


\* ------------------------------------------------------------------------
\* What a completed write stores of the records the tab shows (checked in
\* SpecTiers)
\* ------------------------------------------------------------------------
\* C36: when the pending write fires and completes, the stored list of the
\* active merchant (session.currentMerchantId, or merchant.merchantId when
\* that is empty, and a list that was never stored counting as empty) holds
\* exactly the records getAllPayments() returns.
C36_VisibleIsStored ==
    [][Flush("both") =>
          (SortByCreatedAtDesc(StoredList(CurrentMerchantId(state))) = getAllPayments(state))'
      ]_vars


\* ------------------------------------------------------------------------
\* SpecShared: two tabs of merchant m1 on one localStorage.  The other tab
\* holds a record of its own and writes once, later than anything this tab
\* holds; this tab creates a record, turns the master switch and writes.
\* ------------------------------------------------------------------------
NextShared ==
    \/ StoreCreatePaymentWithId("p1", Num(5, 0), Note(0))
    \/ \E enabled \in BOOLEAN : StoreSetMasterEnabled(enabled)
    \/ /\ inbox = <<>>
       /\ state.lastUpdated < now
       /\ \E current \in {"", "m1"} :
             OtherTabWrite(OtherTabSnapshot(now, current, FALSE, FALSE),
                           <<NewPayment("p2", "m1", Num(5, 0), Note(0), now)>>)
    \/ Tick(DEBOUNCE_MS, MaxTabTicks)
    \/ \E written \in WriteOutcomes : Flush(written)

SpecShared == InitPiBrowser /\ [][NextShared]_vars

\* C37: a write by this tab, made after it applied the other tab's snapshot,
\* keeps in the stored list of the merchant every record that was in it.
C37_StoredRecordsKept ==
    [][\A written \in WriteOutcomes :
          (Flush(written) /\ inbox # <<>>) =>
              \A i \in 1..Len(StoredList("m1")) :
                  \E j \in 1..Len(StoredList("m1")') :
                      StoredList("m1")'[j] = StoredList("m1")[i]
      ]_vars


\* ------------------------------------------------------------------------
\* SpecEcho: a tab in the Pi Browser (window.Pi present) in which the
\* application makes no store call, next to a tab of the same merchant whose
\* page has no window.Pi.  The other tab writes once after a mutation of its
\* own; from then on each tab only receives snapshots and polls its wallet.
\* ------------------------------------------------------------------------
NextEcho ==
    \/ /\ storage.global = None
       /\ state.lastUpdated < now
       /\ \E master \in BOOLEAN, connected \in BOOLEAN :
             StorageEvent(OtherTabPolled(OtherTabSnapshot(now, "m1", master, connected),
                                         FALSE, now))
    \/ /\ storage.global # None
       /\ storage.global[1].wallet.isPiSDKAvailable
       /\ storage.global[1].lastUpdated < now
       /\ StorageEvent(OtherTabPolled(storage.global[1], FALSE, now))
    \/ WalletPoll(TRUE)
    \/ Tick(DEBOUNCE_MS, MaxEchoTicks)
    \/ \E written \in WriteOutcomes : Flush(written)

SpecEcho == InitPiBrowser /\ [][NextEcho]_vars

\* C38: a tab in which no store call is made, and which only receives the
\* snapshots other tabs write, never schedules a write of its own.
C38_NothingScheduled ==
    saveTimeout = None


\* ------------------------------------------------------------------------
\* SpecReset: a tab opened on empty storage in which a record is created, the
\* master and domain switches are turned, the wallet connects, the state is
\* reset and the debounced write fires
\* ------------------------------------------------------------------------
NextReset ==
    \/ StoreCreatePaymentWithId("p1", Num(5, 0), Note(0))
    \/ \E enabled \in BOOLEAN : StoreSetMasterEnabled(enabled)
    \/ \E enabled \in BOOLEAN : StoreSetDomainEnabled("flashpay", enabled)
    \/ \E connected \in BOOLEAN : StoreUpdateWalletStatus(TRUE, connected)
    \/ StoreResetState
    \/ Tick(DEBOUNCE_MS, MaxTabTicks)
    \/ Flush("both")

SpecReset == InitPiBrowser /\ [][NextReset]_vars

\* C39: whatever came before, resetState() leaves the payment list empty, the
\* master switch off, the domain switches at their defaults and the wallet
\* not connected.
C39_ResetIsPristine ==
    [][StoreResetState =>
          /\ state'.payments = <<>>
          /\ ~state'.domainState.masterEnabled
          /\ state'.domainState.domains = OPERATIONAL_DOMAINS
          /\ ~state'.wallet.isConnected
      ]_vars

====
